---- MODULE Spec2Model ----
(***************************************************************************)
(* Scan execution core of tract (core/src/ops/scan): the per-invocation    *)
(* driver `State` of `LirScan`, its eval loop, the slice/assign primitives *)
(* and freeze/unfreeze.                                                    *)
(*                                                                         *)
(* Tensors are rank-0 or rank-1 (axis 0); an element that was allocated    *)
(* but never written holds UNINIT.  Option<usize> is a natural or NONE.    *)
(***************************************************************************)
EXTENDS Integers, Sequences, FiniteSets, TLC

\* ------------------------------------------------------------------ bounds
MaxTrip == 5
MaxLoopTrip == 3
MaxSkip == 2
MaxLim == 2
MaxLen == 3
MaxEvals == 2
MaxIndex == 6
MaxFreezeTrip == 2
MaxFail == 2
MaxNodeInputs == 4
MaxBody == 5
MaxCaptured == 1
MaxRules == 3

\* ------------------------------------------------------- option / tensors
NONE == -1
UNINIT == -99
\* a TDim that is a symbol without a value
SYMBOL == -2

Min(a, b) == IF a < b THEN a ELSE b
Abs(a) == IF a < 0 THEN 0 - a ELSE a

\* usize::divceil
DivCeil(a, b) == (a + b - 1) \div b

\* tensor0(v) with datum type dt
Tensor0(dt, v) == [dt |-> dt, shape |-> <<>>, data |-> <<v>>]
\* rank-1 tensor
Tensor1(dt, xs) == [dt |-> dt, shape |-> <<Len(xs)>>, data |-> xs]
\* Tensor::uninitialized_dt(dt, [n])
Uninitialized(dt, n) == [dt |-> dt, shape |-> <<n>>, data |-> [j \in 1..n |-> UNINIT]]
\* Tensor::default(), the last-value placeholder
TensorDefault == Tensor0("f32", 0)

\* Tensor -> TValue and back (TValue wraps the tensor in a shared pointer)
IntoTValue(t) == [var |-> t]
IntoTensor(v) == v.var

\* ----------------------------------------------------------- data types
ScanInfo(slot, axis, chunk) == [slot |-> slot, axis |-> axis, chunk |-> chunk]
NoScan == [slot |-> NONE, axis |-> NONE, chunk |-> 0]

FromInput(slot) == [kind |-> "FromInput", slot |-> slot, value |-> TensorDefault]
Value(t) == [kind |-> "Value", slot |-> NONE, value |-> t]
NoInitializer == [kind |-> "None", slot |-> NONE, value |-> TensorDefault]

MFull(slot) == [kind |-> "Full", info |-> ScanInfo(slot, NONE, 0), initializer |-> NoInitializer]
MState(init) == [kind |-> "State", info |-> NoScan, initializer |-> init]
MScan(info) == [kind |-> "Scan", info |-> info, initializer |-> NoInitializer]
MIterIndex == [kind |-> "IterIndex", info |-> NoScan, initializer |-> NoInitializer]

OutputMapping(scan, lvs, state, hint) ==
    [scan |-> scan, last_value_slot |-> lvs, state |-> state, full_dim_hint |-> hint]

ExitCondition(cond, trip) == [condition_from_state |-> cond, trip_count_from_input |-> trip]

Fact(dt, shape) == [dt |-> dt, shape |-> shape]

LirScanOpParams(skip, plan, im, om, ec) ==
    [skip |-> skip, plan |-> plan, input_mapping |-> im, output_mapping |-> om,
     exit_condition |-> ec]

\* ------------------------------------------------ compiled bodies (plans)
\* "sum":  (idx, s)            -> (s + idx)
\* "loop": (idx, cond, s, lim) -> (idx + 1 >= lim, s + idx)
\* "scan": (x, acc, idx)       -> (x, acc + idx + 1)
PlanSum == [body |-> "sum", output_facts |-> <<Fact("i64", <<>>)>>]
PlanLoop == [body |-> "loop", output_facts |-> <<Fact("bool", <<>>), Fact("i64", <<>>)>>]
PlanScan(k) == [body |-> "scan", output_facts |-> <<Fact("i64", <<k>>), Fact("i64", <<>>)>>]

\* "fail": (idx, s) -> (s + idx), and the body executor fails when idx = at
PlanFail(at) == [body |-> "fail", output_facts |-> <<Fact("i64", <<>>)>>, fail_at |-> at]

Scalar(v) == IntoTensor(v).data[1]

\* one entry of the context chain of an error: a message and the values
\* formatted into it
Ctx(msg, args) == [msg |-> msg, args |-> args]

\* faulty variant: the body executor never fails
BodyFails_m(plan, ins) == FALSE

\* TypedSimpleState::run returns Err
BodyFails(plan, ins) == plan.body = "fail" /\ Scalar(ins[1]) = plan.fail_at

\* the error of the body executor, with_context(|| "Evaluating inner body")
BodyError(it) == <<Ctx("Evaluating inner body", <<>>), Ctx("body executor error", <<>>)>>

\* TypedSimpleState::run on the body plan
Body(plan, ins) ==
    CASE plan.body = "sum" ->
           <<IntoTValue(Tensor0("i64", Scalar(ins[2]) + Scalar(ins[1])))>>
      [] plan.body = "fail" ->
           <<IntoTValue(Tensor0("i64", Scalar(ins[2]) + Scalar(ins[1])))>>
      [] plan.body = "loop" ->
           <<IntoTValue(Tensor0("bool", IF Scalar(ins[1]) + 1 >= Scalar(ins[4]) THEN 1 ELSE 0)),
             IntoTValue(Tensor0("i64", Scalar(ins[3]) + Scalar(ins[1])))>>
      [] plan.body = "scan" ->
           <<ins[1], IntoTValue(Tensor0("i64", Scalar(ins[2]) + Scalar(ins[3]) + 1))>>

\* ------------------------------------------------------- op instances
\* trip count only; one state with a last value
OpTrip(skip) ==
    LirScanOpParams(skip, PlanSum,
        <<MIterIndex, MState(FromInput(1))>>,
        <<OutputMapping(NoScan, 0, TRUE, NONE)>>,
        ExitCondition(NONE, 0))

\* the mapping the Loop parser emits: trip count and condition
OpLoop(skip) ==
    LirScanOpParams(skip, PlanLoop,
        <<MIterIndex, MState(FromInput(1)), MState(FromInput(2)), MFull(3)>>,
        <<OutputMapping(NoScan, NONE, TRUE, NONE), OutputMapping(NoScan, 0, TRUE, NONE)>>,
        ExitCondition(0, 0))

\* condition only, the condition state initialised by an embedded value
OpCond(skip) ==
    LirScanOpParams(skip, PlanLoop,
        <<MIterIndex, MState(Value(Tensor0("bool", 0))), MState(FromInput(0)), MFull(1)>>,
        <<OutputMapping(NoScan, NONE, TRUE, NONE), OutputMapping(NoScan, 0, TRUE, NONE)>>,
        ExitCondition(0, NONE))

\* no exit condition: iteration count from the scan input; scan output in
\* slot 1, last value of the state in slot 0
OpScan(skip, chunk) ==
    LirScanOpParams(skip, PlanScan(Abs(chunk)),
        <<MScan(ScanInfo(0, 0, chunk)), MState(Value(Tensor0("i64", 0))), MIterIndex>>,
        <<OutputMapping(ScanInfo(1, 0, chunk), NONE, FALSE, NONE),
          OutputMapping(NoScan, 0, TRUE, NONE)>>,
        ExitCondition(NONE, NONE))

Chunks == {1, 2, -1, -2}

Ops ==
    {OpTrip(s) : s \in 0..MaxSkip} \cup {OpLoop(s) : s \in 0..MaxSkip}
    \cup {OpCond(s) : s \in 0..MaxSkip}
    \cup {OpScan(s, c) : s \in 0..MaxSkip, c \in Chunks}

\* condition_from_state names a hidden state that does not exist
OpBadIdx(skip) ==
    LirScanOpParams(skip, PlanLoop,
        <<MIterIndex, MState(Value(Tensor0("bool", 0))), MState(FromInput(0)), MFull(1)>>,
        <<OutputMapping(NoScan, NONE, TRUE, NONE), OutputMapping(NoScan, 0, TRUE, NONE)>>,
        ExitCondition(2, NONE))

\* condition_from_state names the i64 state
OpNotBool(skip) ==
    LirScanOpParams(skip, PlanLoop,
        <<MIterIndex, MState(Value(Tensor0("bool", 0))), MState(FromInput(0)), MFull(1)>>,
        <<OutputMapping(NoScan, NONE, TRUE, NONE), OutputMapping(NoScan, 0, TRUE, NONE)>>,
        ExitCondition(1, NONE))

\* OpTrip with a body that fails at iteration index `at`
OpFail(skip, at) ==
    LirScanOpParams(skip, PlanFail(at),
        <<MIterIndex, MState(FromInput(1))>>,
        <<OutputMapping(NoScan, 0, TRUE, NONE)>>,
        ExitCondition(NONE, 0))

\* OpScan(0, chunk) with a full_dim_hint on its scan output
OpHint(chunk, hint) ==
    LirScanOpParams(0, PlanScan(Abs(chunk)),
        <<MScan(ScanInfo(0, 0, chunk)), MState(Value(Tensor0("i64", 0))), MIterIndex>>,
        <<OutputMapping(ScanInfo(1, 0, chunk), NONE, FALSE, hint),
          OutputMapping(NoScan, 0, TRUE, NONE)>>,
        ExitCondition(NONE, NONE))

Hints == 1..MaxLen \cup {SYMBOL}

\* a trip count in slot 0 and a Scan input in slot 1; scan output in slot 1,
\* last value of the state in slot 0
OpTripScan(chunk) ==
    LirScanOpParams(0, PlanScan(Abs(chunk)),
        <<MScan(ScanInfo(1, 0, chunk)), MState(Value(Tensor0("i64", 0))), MIterIndex>>,
        <<OutputMapping(ScanInfo(1, 0, chunk), NONE, FALSE, NONE),
          OutputMapping(NoScan, 0, TRUE, NONE)>>,
        ExitCondition(NONE, 0))

AllOps ==
    Ops \cup {OpBadIdx(s) : s \in 0..MaxSkip} \cup {OpNotBool(s) : s \in 0..MaxSkip}
    \cup {OpHint(c, h) : c \in Chunks, h \in Hints}
    \cup {OpFail(s, a) : s \in 0..MaxSkip, a \in 0..MaxFail}
    \cup {OpTripScan(c) : c \in Chunks}

\* the outer inputs a caller may pass to eval, per op
Iota(n) == [j \in 1..n |-> 10 + j]

InputsOf(o) ==
    IF o.plan.body = "sum" THEN
        {<<IntoTValue(Tensor0("tdim", n)), IntoTValue(Tensor0("i64", s))>> :
            n \in (-1)..MaxTrip, s \in {10, 20}}
        \cup {<<IntoTValue(t), IntoTValue(Tensor0("i64", 10))>> :
                t \in {Tensor0("f32", 2), Tensor1("tdim", <<2>>)}}
    ELSE IF o.plan.body = "fail" THEN
        {<<IntoTValue(Tensor0("tdim", n)), IntoTValue(Tensor0("i64", 10))>> :
            n \in 0..(MaxFail + 1)}
    ELSE IF o.plan.body = "loop" /\ o.exit_condition.trip_count_from_input # NONE THEN
        {<<IntoTValue(Tensor0("tdim", n)), IntoTValue(Tensor0("bool", c)),
           IntoTValue(Tensor0("i64", s)), IntoTValue(Tensor0("i64", l))>> :
            n \in 0..MaxLoopTrip, c \in {0, 1}, s \in {10}, l \in 1..MaxLim}
    ELSE IF o.plan.body = "loop" THEN
        {<<IntoTValue(Tensor0("i64", s)), IntoTValue(Tensor0("i64", l))>> :
            s \in {10, 20}, l \in 1..MaxLim}
    ELSE IF o.exit_condition.trip_count_from_input # NONE THEN
        {<<IntoTValue(Tensor0("tdim", n)), IntoTValue(Tensor1("i64", Iota(len)))>> :
            n \in 0..MaxLen, len \in 1..MaxLen}
    ELSE
        {<<IntoTValue(Tensor1("i64", Iota(n)))>> : n \in 1..MaxLen}

\* ------------------------------------------------ slice/assign primitives
\* State::slice_input; fault = usize underflow of `remain`
slice_input(input, axis, chunk_ix, chunk_dim) ==
    LET full_len == input.shape[axis + 1]
        k == Abs(chunk_dim)
        remain == full_len - chunk_ix * k
        data ==
            IF chunk_dim < 0 THEN
                [d \in 1..k |->
                    LET i == k - d IN
                    IF k * chunk_ix + i < full_len
                    THEN input.data[full_len - 1 - (chunk_ix * k + i) + 1]
                    ELSE UNINIT]
            ELSE IF (chunk_ix + 1) * k > full_len THEN
                [d \in 1..k |->
                    IF d <= remain THEN input.data[chunk_ix * k + d] ELSE UNINIT]
            ELSE
                [d \in 1..k |-> input.data[k * chunk_ix + d]]
    IN  IF chunk_dim > 0 /\ (chunk_ix + 1) * k > full_len /\ remain < 0
        THEN [fault |-> TRUE, t |-> input]
        ELSE [fault |-> FALSE, t |-> [dt |-> input.dt, shape |-> <<k>>, data |-> data]]

\* faulty variant: the forward offset is the iteration index
assign_range_m(full_len, w, i, backward) ==
    LET offset == IF backward THEN full_len - 1 - i * w ELSE i
    IN  IF offset < 0 \/ full_len - offset < 0
        THEN [fault |-> TRUE, offset |-> 0, count |-> 0]
        ELSE [fault |-> FALSE, offset |-> offset, count |-> Min(w, full_len - offset)]

\* offset and count of State::assign_output; fault = usize underflow of
\* offset or of full_len - offset
assign_range(full_len, w, i, backward) ==
    LET offset == IF backward THEN full_len - 1 - i * w ELSE i * w
    IN  IF offset < 0 \/ full_len - offset < 0
        THEN [fault |-> TRUE, offset |-> 0, count |-> 0]
        ELSE [fault |-> FALSE, offset |-> offset, count |-> Min(w, full_len - offset)]

\* State::assign_output
assign_output(output, axis, element_value, i, backward) ==
    LET full_len == output.shape[axis + 1]
        r == assign_range(full_len, element_value.shape[axis + 1], i, backward)
    IN  IF r.fault
        THEN [fault |-> TRUE, t |-> output]
        ELSE [fault |-> FALSE,
              t |-> [output EXCEPT !.data =
                        [p \in 1..full_len |->
                            IF r.offset < p /\ p <= r.offset + r.count
                            THEN element_value.data[p - r.offset]
                            ELSE output.data[p]]]]

\* ------------------------------------------------------ eval, phase A..C
\* faulty variant: the hidden state is not reversed before it is popped
Reverse_m(q) == q

Reverse(q) == [j \in 1..Len(q) |-> q[Len(q) + 1 - j]]

IsState(m) == m.kind = "State"
IsScanInput(m) == m.kind = "Scan"
\* faulty variant: every body output is pushed onto the hidden state
IsStateOutput_m(m) == TRUE

IsStateOutput(m) == m.state

\* number of State input mappings
NbStates(o) == Len(SelectSeq(o.input_mapping, IsState))

\* lir.rs: "initialize state at first pass"
InitState(o, ins) ==
    LET st == SelectSeq(o.input_mapping, IsState)
    IN  [j \in 1..Len(st) |->
            IF st[j].initializer.kind = "FromInput"
            THEN ins[st[j].initializer.slot + 1]
            ELSE IntoTValue(st[j].initializer.value)]

\* faulty variant: the division rounds down
ScanIters_m(o, ins) ==
    LET sc == SelectSeq(o.input_mapping, IsScanInput)
    IN  IF Len(sc) = 0 THEN NONE
        ELSE IntoTensor(ins[sc[1].info.slot + 1]).shape[sc[1].info.axis + 1]
                \div Abs(sc[1].info.chunk)

\* iteration count from the first Scan input mapping, if any
ScanIters(o, ins) ==
    LET sc == SelectSeq(o.input_mapping, IsScanInput)
    IN  IF Len(sc) = 0 THEN NONE
        ELSE DivCeil(IntoTensor(ins[sc[1].info.slot + 1]).shape[sc[1].info.axis + 1],
                     Abs(sc[1].info.chunk))

\* Tensor::to_scalar::<dt>: an error unless t is a scalar of datum type dt
ToScalar(t, dt) ==
    IF t.dt # dt \/ t.shape # <<>> THEN [err |-> TRUE, v |-> 0]
    ELSE [err |-> FALSE, v |-> t.data[1]]

\* faulty variant: a negative trip count is converted without an error
TripCount_m(o, ins) ==
    LET sc == ToScalar(IntoTensor(ins[o.exit_condition.trip_count_from_input + 1]), "tdim")
    IN  IF sc.err THEN [err |-> TRUE, n |-> NONE]
        ELSE [err |-> FALSE, n |-> sc.v]

\* the trip count input read as a scalar TDim and converted to usize
TripCount(o, ins) ==
    LET sc == ToScalar(IntoTensor(ins[o.exit_condition.trip_count_from_input + 1]), "tdim")
    IN  IF sc.err \/ sc.v < 0
        THEN [err |-> TRUE, n |-> NONE]
        ELSE [err |-> FALSE, n |-> sc.v]

\* the context of the Err a bad trip count gives
TripError(o, ins) ==
    LET sc == ToScalar(IntoTensor(ins[o.exit_condition.trip_count_from_input + 1]), "tdim")
    IN  IF sc.err THEN <<Ctx("Trip count is not a scalar TDim", <<>>)>>
        ELSE <<Ctx("{} is not a valid trip count", <<sc.v>>)>>

\* faulty variant: the scan-derived count is kept when the op has a Scan input
EvalIters_m(o, ins) ==
    IF ScanIters(o, ins) # NONE THEN [err |-> FALSE, n |-> ScanIters(o, ins)]
    ELSE IF o.exit_condition.trip_count_from_input # NONE
    THEN TripCount(o, ins)
    ELSE [err |-> FALSE, n |-> NONE]

\* iters as eval computes it: scan-derived, overridden by the trip count
EvalIters(o, ins) ==
    IF o.exit_condition.trip_count_from_input # NONE
    THEN TripCount(o, ins)
    ELSE [err |-> FALSE, n |-> ScanIters(o, ins)]

\* stable sort of (slot, tensor) pairs by slot
RECURSIVE InsertByKey(_, _)
InsertByKey(q, e) ==
    IF Len(q) = 0 THEN <<e>>
    ELSE IF q[Len(q)][1] <= e[1] THEN Append(q, e)
    ELSE Append(InsertByKey(SubSeq(q, 1, Len(q) - 1), e), q[Len(q)])

\* faulty variant: the pairs are left in the order they were pushed
SortByKey_m(q) == q

RECURSIVE SortByKey(_)
SortByKey(q) ==
    IF Len(q) = 0 THEN <<>>
    ELSE InsertByKey(SortByKey(SubSeq(q, 1, Len(q) - 1)), q[Len(q)])

\* full_dim_hint.and_then(|d| d.to_usize().ok()): a symbolic hint gives None
HintToUsize(hint) == IF hint = SYMBOL THEN NONE ELSE hint

\* faulty variant: a scan accumulator without hint is one element short
AllocOne_m(o, ix, iters) ==
    LET m == o.output_mapping[ix]
        fact == o.plan.output_facts[ix]
        dim == IF HintToUsize(m.full_dim_hint) # NONE THEN HintToUsize(m.full_dim_hint)
               ELSE fact.shape[m.scan.axis + 1] * iters - 1
    IN  (IF m.scan.slot # NONE THEN <<<<m.scan.slot, Uninitialized(fact.dt, dim)>>>> ELSE <<>>)
        \o (IF m.last_value_slot # NONE THEN <<<<m.last_value_slot, TensorDefault>>>> ELSE <<>>)

\* the (slot, tensor) pairs pushed for output mapping ix
AllocOne(o, ix, iters) ==
    LET m == o.output_mapping[ix]
        fact == o.plan.output_facts[ix]
        dim == IF HintToUsize(m.full_dim_hint) # NONE THEN HintToUsize(m.full_dim_hint)
               ELSE fact.shape[m.scan.axis + 1] * iters
    IN  (IF m.scan.slot # NONE THEN <<<<m.scan.slot, Uninitialized(fact.dt, dim)>>>> ELSE <<>>)
        \o (IF m.last_value_slot # NONE THEN <<<<m.last_value_slot, TensorDefault>>>> ELSE <<>>)

RECURSIVE AllocPairs(_, _, _)
AllocPairs(o, ix, iters) ==
    IF ix = 0 THEN <<>> ELSE AllocPairs(o, ix - 1, iters) \o AllocOne(o, ix, iters)

\* lir.rs: allocate the scan accumulators and last-value placeholders,
\* sorted by outer slot
AllocOutputs(o, iters) ==
    LET sorted == SortByKey(AllocPairs(o, Len(o.output_mapping), iters))
    IN  [j \in 1..Len(sorted) |-> sorted[j][2]]

\* a scan output whose length cannot be computed (no iters, no hint)
AllocFault(o, iters) ==
    \E ix \in 1..Len(o.output_mapping) :
        /\ o.output_mapping[ix].scan.slot # NONE
        /\ HintToUsize(o.output_mapping[ix].full_dim_hint) = NONE
        /\ iters = NONE

\* ---------------------------------------------------- eval, one iteration
\* body inputs in input-mapping order; hs is the reversed hidden state,
\* consumed from the back
RECURSIVE PrepareFrom(_, _, _, _, _, _)
PrepareFrom(o, ix, hs, ins, it, acc) ==
    IF ix > Len(o.input_mapping) THEN [fault |-> FALSE, inputs |-> acc, hs |-> hs]
    ELSE LET m == o.input_mapping[ix] IN
         IF m.kind = "State" THEN
            IF Len(hs) = 0 THEN [fault |-> TRUE, inputs |-> acc, hs |-> hs]
            ELSE PrepareFrom(o, ix + 1, SubSeq(hs, 1, Len(hs) - 1), ins, it,
                             Append(acc, hs[Len(hs)]))
         ELSE IF m.kind = "Scan" THEN
            LET sl == slice_input(IntoTensor(ins[m.info.slot + 1]), m.info.axis, it,
                                  m.info.chunk)
            IN  IF sl.fault THEN [fault |-> TRUE, inputs |-> acc, hs |-> hs]
                ELSE PrepareFrom(o, ix + 1, hs, ins, it, Append(acc, IntoTValue(sl.t)))
         ELSE IF m.kind = "Full" THEN
            PrepareFrom(o, ix + 1, hs, ins, it, Append(acc, ins[m.info.slot + 1]))
         ELSE
            PrepareFrom(o, ix + 1, hs, ins, it, Append(acc, IntoTValue(Tensor0("tdim", it))))

\* lir.rs: hidden_state.reverse() and "prepare inputs"
PrepareInputs(o, hs, ins, it) == PrepareFrom(o, 1, Reverse(hs), ins, it, <<>>)

\* the last-value test of "handle the outputs": i == iters - 1
IsLastIter(it, iters) == iters # NONE /\ it = iters - 1

\* lir.rs: "handle the outputs", body outputs zipped with the output mapping
RECURSIVE DistributeFrom(_, _, _, _, _, _, _)
DistributeFrom(o, ix, outs, acc, hs, it, iters) ==
    IF ix > Min(Len(outs), Len(o.output_mapping))
    THEN [fault |-> FALSE, outputs |-> acc, hs |-> hs]
    ELSE LET m == o.output_mapping[ix]
             v == outs[ix]
             asg == IF m.scan.slot # NONE
                    THEN assign_output(acc[m.scan.slot + 1], m.scan.axis, IntoTensor(v), it,
                                       m.scan.chunk < 0)
                    ELSE [fault |-> FALSE, t |-> TensorDefault]
             acc1 == IF m.scan.slot # NONE THEN [acc EXCEPT ![m.scan.slot + 1] = asg.t]
                     ELSE acc
             acc2 == IF IsLastIter(it, iters) /\ m.last_value_slot # NONE
                     THEN [acc1 EXCEPT ![m.last_value_slot + 1] = IntoTensor(v)]
                     ELSE acc1
             hs1 == IF IsStateOutput(m) THEN Append(hs, v) ELSE hs
         IN  IF asg.fault THEN [fault |-> TRUE, outputs |-> acc, hs |-> hs]
             ELSE DistributeFrom(o, ix + 1, outs, acc2, hs1, it, iters)

Distribute(o, outs, acc, hs, it, iters) == DistributeFrom(o, 1, outs, acc, hs, it, iters)

\* ------------------------------------------------------------ output_facts
\* the (slot, fact) pairs pushed for output mapping ix: the last value
\* first, then the scan output with its scanning dimension
FactOne(o, ix, iters) ==
    LET m == o.output_mapping[ix]
        fact == o.plan.output_facts[ix]
        scanning_dim == IF m.full_dim_hint # NONE THEN m.full_dim_hint
                        ELSE fact.shape[m.scan.axis + 1] * iters
    IN  (IF m.last_value_slot # NONE THEN <<<<m.last_value_slot, fact>>>> ELSE <<>>)
        \o (IF m.scan.slot # NONE
            THEN <<<<m.scan.slot,
                     Fact(fact.dt, [fact.shape EXCEPT ![m.scan.axis + 1] = scanning_dim])>>>>
            ELSE <<>>)

RECURSIVE FactPairs(_, _, _)
FactPairs(o, ix, iters) ==
    IF ix = 0 THEN <<>> ELSE FactPairs(o, ix - 1, iters) \o FactOne(o, ix, iters)

\* faulty variant: the facts are returned in output-mapping order
output_facts_m(o, in_facts) ==
    LET sc == SelectSeq(o.input_mapping, IsScanInput)
    IN  IF Len(sc) = 0 THEN [panic |-> TRUE, facts |-> <<>>]
        ELSE LET iters == DivCeil(in_facts[sc[1].info.slot + 1].shape[sc[1].info.axis + 1],
                                  Abs(sc[1].info.chunk))
                 sorted == FactPairs(o, Len(o.output_mapping), iters)
             IN  [panic |-> FALSE, facts |-> [j \in 1..Len(sorted) |-> sorted[j][2]]]

\* LirScan::output_facts; panic = unwrap() of the first Scan input mapping
\* when the op has none
output_facts(o, in_facts) ==
    LET sc == SelectSeq(o.input_mapping, IsScanInput)
    IN  IF Len(sc) = 0 THEN [panic |-> TRUE, facts |-> <<>>]
        ELSE LET iters == DivCeil(in_facts[sc[1].info.slot + 1].shape[sc[1].info.axis + 1],
                                  Abs(sc[1].info.chunk))
                 sorted == SortByKey(FactPairs(o, Len(o.output_mapping), iters))
             IN  [panic |-> FALSE, facts |-> [j \in 1..Len(sorted) |-> sorted[j][2]]]

\* the typed facts of the tensors passed as outer inputs
FactsOf(ins) == [j \in 1..Len(ins) |-> Fact(IntoTensor(ins[j]).dt, IntoTensor(ins[j]).shape)]

\* ------------------------------------------------------ freeze / unfreeze
\* faulty variant: the snapshot does not record the position
Freeze_m(pos, hs, o) ==
    [op |-> o, position |-> 0,
     hidden_state |-> [j \in 1..Len(hs) |-> IntoTensor(hs[j])]]

\* OpStateFreeze::freeze
Freeze(pos, hs, o) ==
    [op |-> o, position |-> pos,
     hidden_state |-> [j \in 1..Len(hs) |-> IntoTensor(hs[j])]]

\* FrozenOpState::unfreeze
Unfreeze(f) ==
    [op |-> f.op, position |-> f.position,
     hidden_state |-> [j \in 1..Len(f.hidden_state) |-> IntoTValue(f.hidden_state[j])]]

\* ------------------------------------------------------- loop control
\* faulty variant: the hidden state is initialised at every eval
NeedsInit_m(hs) == TRUE

\* first-pass test: hidden_state.len() == 0
NeedsInit(hs) == Len(hs) = 0

\* faulty variant: the guard tests position < skip
SkipThis_m(pos, skip) == pos < skip

\* skip guard: *position <= op.skip
SkipThis(pos, skip) == pos <= skip

\* faulty variant: a skipped step leaves i where it is
SkipIndex_m(it) == it

\* `for i in 0..`: `continue` on a skipped step advances i
SkipIndex(it) == it + 1

\* `for i in 0..`: i advances after a completed iteration
NextIndex(it) == it + 1

\* faulty variant: the iteration-count exit is one iteration early
IterCountReached_m(n, it) == n # NONE /\ n = it + 1

\* iter condition: iters.map(|e| e == i) == Some(true)
IterCountReached(n, it) == n # NONE /\ n = it

\* faulty variant: the loop stops while the condition is false
ConditionState_m(o, hs) ==
    LET idx == o.exit_condition.condition_from_state
    IN  IF idx = NONE THEN [err |-> FALSE, panic |-> FALSE, stop |-> FALSE]
        ELSE IF idx + 1 > Len(hs) THEN [err |-> FALSE, panic |-> TRUE, stop |-> FALSE]
        ELSE LET sc == ToScalar(IntoTensor(hs[idx + 1]), "bool")
             IN  [err |-> sc.err, panic |-> FALSE, stop |-> ~sc.err /\ sc.v = 0]

\* boolean hidden state condition: hidden_state[idx] panics when idx is out
\* of range, err when the state is not a scalar bool, stop when it holds true
ConditionState(o, hs) ==
    LET idx == o.exit_condition.condition_from_state
    IN  IF idx = NONE THEN [err |-> FALSE, panic |-> FALSE, stop |-> FALSE]
        ELSE IF idx + 1 > Len(hs) THEN [err |-> FALSE, panic |-> TRUE, stop |-> FALSE]
        ELSE LET sc == ToScalar(IntoTensor(hs[idx + 1]), "bool")
             IN  [err |-> sc.err, panic |-> FALSE, stop |-> ~sc.err /\ sc.v = 1]

\* LirScan::state
NewState(o) == [op |-> o, position |-> 0, hidden_state |-> <<>>]

\* ---------------------------------------------------------------- state
Drivers == {1, 2}

VARIABLES
    op,            \* the shared parameter record
    alive,         \* which drivers exist (1: from LirScan::state, 2: unfrozen)
    position,      \* State.position, per driver
    hidden_state,  \* State.hidden_state, per driver
    frozen,        \* <<>> or <<FrozenState>>
    pc,            \* "idle", "loop", "run", "dist", "done"
    who,           \* the driver whose eval is running or has just returned
    inputs,        \* outer inputs of that eval
    iters, i, outputs, iter_inputs, iter_outputs,   \* locals of eval
    status,        \* per driver: "ok", "failed" (Err returned), "aborted"
    result,        \* per driver: outputs returned by its last eval
    execs,         \* history: body executions of the eval of `who`
    entry,         \* history: driver state when the eval of `who` was entered
    hist,          \* history, per driver: calls, initializer reads, last body output
    snap_hist,     \* history of driver 1 when `frozen` was taken
    fresh,         \* driver 1 has not run since `frozen` was taken
    paired,        \* driver 2 is the restored copy of driver 1's current state
    facts,         \* <<>> or <<the last call of output_facts: input facts, result>>
    error,         \* the Err value of the eval of `who`: <<>> or its context chain
    parsed,        \* <<>> or <<Loop node given to the parser, its result>>
    solver         \* <<>> or <<the state of a call of Solver::infer_facts>>

vars == <<op, alive, position, hidden_state, frozen, pc, who, inputs, iters, i, outputs,
          iter_inputs, iter_outputs, status, result, execs, entry, hist, snap_hist,
          fresh, paired, facts, error, parsed, solver>>

\* the variables eval and output_facts never touch
aux == <<parsed, solver>>

locals == <<iters, i, outputs, iter_inputs, iter_outputs>>

NoHist == [calls |-> 0, init_reads |-> 0, init_inputs |-> <<>>, last_out |-> <<>>]

InitOf(S) ==
    /\ op \in S
    /\ alive = [d \in Drivers |-> d = 1]
    /\ position = [d \in Drivers |-> NewState(op).position]
    /\ hidden_state = [d \in Drivers |-> NewState(op).hidden_state]
    /\ frozen = <<>>
    /\ pc = "idle"
    /\ who = 1
    /\ inputs = <<>>
    /\ iters = NONE
    /\ i = 0
    /\ outputs = <<>>
    /\ iter_inputs = <<>>
    /\ iter_outputs = <<>>
    /\ status = [d \in Drivers |-> "ok"]
    /\ result = [d \in Drivers |-> <<>>]
    /\ execs = <<>>
    /\ entry = [position |-> 0, hidden_state |-> <<>>, last_out |-> <<>>, hs |-> <<>>]
    /\ hist = [d \in Drivers |-> NoHist]
    /\ snap_hist = NoHist
    /\ fresh = FALSE
    /\ paired = FALSE
    /\ facts = <<>>
    /\ error = <<>>
    /\ parsed = <<>>
    /\ solver = <<>>

Init == InitOf(Ops)

\* driver 1 has made a call that its restored twin has not made yet
TwinBehind == paired /\ hist[2].calls < hist[1].calls

\* eval has no call in progress and no restored twin waiting for its turn
Quiet == pc \in {"idle", "done"} /\ ~TwinBehind

\* eval up to the loop: phases A (hidden state), B (iters), C (outputs)
BeginEval(d, ins) ==
    LET init == NeedsInit(hidden_state[d])
        hs1 == IF init THEN InitState(op, ins) ELSE hidden_state[d]
        it == EvalIters(op, ins)
        bad == it.err \/ AllocFault(op, it.n)
    IN  /\ who' = d
        /\ inputs' = ins
        /\ hidden_state' = [hidden_state EXCEPT ![d] = hs1]
        /\ entry' = [position |-> position[d], hidden_state |-> hidden_state[d],
                     last_out |-> hist[d].last_out, hs |-> hs1]
        /\ hist' = [hist EXCEPT ![d].calls = @ + 1,
                                ![d].init_reads = IF init THEN @ + 1 ELSE @,
                                ![d].init_inputs = IF init THEN ins ELSE @]
        /\ execs' = <<>>
        /\ i' = 0
        /\ iter_inputs' = <<>>
        /\ iter_outputs' = <<>>
        /\ iters' = it.n
        /\ outputs' = IF bad THEN <<>> ELSE AllocOutputs(op, it.n)
        /\ pc' = IF bad THEN "done" ELSE "loop"
        /\ status' = [status EXCEPT ![d] = IF bad THEN "failed" ELSE @]
        /\ result' = [result EXCEPT ![d] = <<>>]
        /\ error' = IF it.err THEN TripError(op, ins) ELSE <<>>
        /\ UNCHANGED <<aux, facts, op, alive, position, frozen, snap_hist>>

\* the caller invokes eval on driver d (and then, when driver 2 is its
\* restored twin, makes the same call on driver 2: EvalPaired)
EvalCall(d, ins) ==
    /\ Quiet
    /\ alive[d]
    /\ status[d] = "ok"
    /\ hist[d].calls < MaxEvals
    /\ BeginEval(d, ins)
    /\ fresh' = IF d = 1 THEN FALSE ELSE fresh
    /\ UNCHANGED paired

\* the same call made on the restored twin of driver 1
EvalPaired ==
    /\ pc = "done"
    /\ TwinBehind
    /\ who = 1
    /\ BeginEval(2, inputs)
    /\ UNCHANGED <<fresh, paired>>

\* return of eval: Ok(outputs) on a break
Return(d, pos) ==
    /\ position' = [position EXCEPT ![d] = pos]
    /\ result' = [result EXCEPT ![d] = [j \in 1..Len(outputs) |-> IntoTValue(outputs[j])]]
    /\ pc' = "done"
    /\ UNCHANGED <<aux, error, facts, op, alive, hidden_state, frozen, who, inputs, locals, status, execs,
                   entry, hist, snap_hist, fresh, paired>>

\* a skipped step: position advances, `continue`
SkipStep ==
    /\ pc = "loop"
    /\ SkipThis(position[who] + 1, op.skip)
    /\ i < MaxIndex
    /\ position' = [position EXCEPT ![who] = @ + 1]
    /\ i' = SkipIndex(i)
    /\ UNCHANGED <<aux, error, facts, op, alive, hidden_state, frozen, pc, who, inputs, iters, outputs,
                   iter_inputs, iter_outputs, status, result, execs, entry, hist,
                   snap_hist, fresh, paired>>

\* break out of loop for reaching iteration count
BreakIterCount ==
    /\ pc = "loop"
    /\ ~SkipThis(position[who] + 1, op.skip)
    /\ IterCountReached(iters, i)
    /\ Return(who, position[who] + 1)

\* break out of loop from boolean condition
BreakCondition ==
    /\ pc = "loop"
    /\ ~SkipThis(position[who] + 1, op.skip)
    /\ ~IterCountReached(iters, i)
    /\ ConditionState(op, hidden_state[who]).stop
    /\ Return(who, position[who] + 1)

\* no exit: reverse the hidden state and prepare the body inputs
PrepareStep ==
    /\ pc = "loop"
    /\ ~SkipThis(position[who] + 1, op.skip)
    /\ ~IterCountReached(iters, i)
    /\ ~ConditionState(op, hidden_state[who]).stop
    /\ i < MaxIndex
    /\ LET cs == ConditionState(op, hidden_state[who])
           err == cs.err
           prep == PrepareInputs(op, hidden_state[who], inputs, i)
       IN  /\ position' = [position EXCEPT ![who] = @ + 1]
           /\ IF cs.err \/ cs.panic \/ prep.fault
              THEN /\ pc' = "done"
                   /\ status' = [status EXCEPT ![who] = IF err THEN "failed" ELSE "aborted"]
                   /\ error' = IF err THEN <<Ctx("Loop exit condition is not a scalar boolean",
                                                <<>>)>>
                               ELSE <<>>
                   /\ UNCHANGED <<hidden_state, iter_inputs, execs>>
              ELSE /\ pc' = "run"
                   /\ hidden_state' = [hidden_state EXCEPT ![who] = prep.hs]
                   /\ iter_inputs' = prep.inputs
                   /\ execs' = Append(execs, [i |-> i, hs |-> hidden_state[who],
                                              ins |-> prep.inputs, outs |-> <<>>])
                   /\ UNCHANGED <<status, error>>
    /\ UNCHANGED <<aux, facts, op, alive, frozen, who, inputs, iters, i, outputs, iter_outputs,
                   result, entry, hist, snap_hist, fresh, paired>>

\* run the loop body
RunBody ==
    /\ pc = "run"
    /\ IF BodyFails(op.plan, iter_inputs)
       THEN /\ pc' = "done"
            /\ status' = [status EXCEPT ![who] = "failed"]
            /\ error' = BodyError(i)
            /\ UNCHANGED <<iter_outputs, execs, hist>>
       ELSE /\ iter_outputs' = Body(op.plan, iter_inputs)
            /\ execs' = [execs EXCEPT ![Len(execs)].outs = iter_outputs']
            /\ hist' = [hist EXCEPT ![who].last_out = <<iter_outputs'>>]
            /\ pc' = "dist"
            /\ UNCHANGED <<status, error>>
    /\ UNCHANGED <<aux, facts, op, alive, position, hidden_state, frozen, who, inputs, iters, i,
                   outputs, iter_inputs, result, entry, snap_hist, fresh, paired>>

\* handle the outputs, then the next loop step
DistributeStep ==
    /\ pc = "dist"
    /\ LET dist == Distribute(op, iter_outputs, outputs, hidden_state[who], i, iters)
       IN  IF dist.fault
           THEN /\ pc' = "done"
                /\ status' = [status EXCEPT ![who] = "aborted"]
                /\ UNCHANGED <<hidden_state, outputs, i>>
           ELSE /\ pc' = "loop"
                /\ outputs' = dist.outputs
                /\ hidden_state' = [hidden_state EXCEPT ![who] = dist.hs]
                /\ i' = NextIndex(i)
                /\ UNCHANGED status
    /\ UNCHANGED <<aux, error, facts, op, alive, position, frozen, who, inputs, iters, iter_inputs,
                   iter_outputs, result, execs, entry, hist, snap_hist, fresh, paired>>

\* freeze driver 1 between eval calls
FreezeStep ==
    /\ Quiet
    /\ status[1] = "ok"
    /\ frozen' = <<Freeze(position[1], hidden_state[1], op)>>
    /\ snap_hist' = hist[1]
    /\ fresh' = TRUE
    /\ UNCHANGED <<aux, error, facts, op, alive, position, hidden_state, pc, who, inputs, locals, status,
                   result, execs, entry, hist, paired>>

\* build driver 2 from the snapshot
UnfreezeStep ==
    /\ Quiet
    /\ frozen # <<>>
    /\ LET u == Unfreeze(frozen[1])
       IN  /\ position' = [position EXCEPT ![2] = u.position]
           /\ hidden_state' = [hidden_state EXCEPT ![2] = u.hidden_state]
    /\ alive' = [alive EXCEPT ![2] = TRUE]
    /\ status' = [status EXCEPT ![2] = "ok"]
    /\ result' = [result EXCEPT ![2] = <<>>]
    /\ hist' = [hist EXCEPT ![2] = snap_hist]
    /\ paired' = fresh
    /\ UNCHANGED <<aux, error, facts, op, frozen, pc, who, inputs, locals, execs, entry, snap_hist, fresh>>

\* one driver, called repeatedly
Next ==
    \/ \E ins \in InputsOf(op) : EvalCall(1, ins)
    \/ SkipStep
    \/ BreakIterCount
    \/ BreakCondition
    \/ PrepareStep
    \/ RunBody
    \/ DistributeStep

Spec == Init /\ [][Next]_vars

\* the driver, its snapshot and the driver restored from it; the trip
\* counts passed are at most MaxFreezeTrip
FreezeInputsOf(o) ==
    {ins \in InputsOf(o) :
        o.exit_condition.trip_count_from_input # NONE
            => Scalar(ins[o.exit_condition.trip_count_from_input + 1]) <= MaxFreezeTrip}

NextFreeze ==
    \/ \E ins \in FreezeInputsOf(op) : EvalCall(1, ins)
    \/ EvalPaired
    \/ SkipStep
    \/ BreakIterCount
    \/ BreakCondition
    \/ PrepareStep
    \/ RunBody
    \/ DistributeStep
    \/ FreezeStep
    \/ UnfreezeStep

SpecFreeze == Init /\ [][NextFreeze]_vars

\* the typing of the op for the facts of the inputs the caller passed
OutputFactsStep ==
    /\ pc = "done"
    /\ facts # <<[inputs |-> FactsOf(inputs), result |-> output_facts(op, FactsOf(inputs))]>>
    /\ facts' = <<[inputs |-> FactsOf(inputs), result |-> output_facts(op, FactsOf(inputs))]>>
    /\ UNCHANGED <<aux, error, op, alive, position, hidden_state, frozen, pc, who, inputs,
                   locals, status, result, execs, entry, hist, snap_hist, fresh, paired>>

\* every op instance, with the typing of the op
NextAll ==
    \/ \E ins \in InputsOf(op) : EvalCall(1, ins)
    \/ SkipStep
    \/ BreakIterCount
    \/ BreakCondition
    \/ PrepareStep
    \/ RunBody
    \/ DistributeStep
    \/ OutputFactsStep

SpecAll == InitOf(AllOps) /\ [][NextAll]_vars

\* ------------------------------------------------------ the Loop parser
\* a Loop node: which of its inputs are present (non-empty names), the
\* number of inputs and outputs of its body graph, and the number of outer
\* values the body captures (unresolved_inputs)
Node(present, body_inputs, body_outputs, unresolved) ==
    [present |-> present, body_inputs |-> body_inputs, body_outputs |-> body_outputs,
     unresolved |-> unresolved]

RECURSIVE NbPresent(_, _)
NbPresent(present, j) ==
    IF j = 0 THEN 0 ELSE NbPresent(present, j - 1) + (IF present[j] THEN 1 ELSE 0)

\* crate::model::optional_inputs, item j (from 1): the index of the input
\* among the present ones, None for an absent one and past the end
OptionalInput(present, j) ==
    IF j <= Len(present) /\ present[j] THEN NbPresent(present, j - 1) ELSE NONE

\* inputs.take_while(|e| e.is_some()) from item j on
RECURSIVE TakeWhileSome(_, _)
TakeWhileSome(present, j) ==
    IF OptionalInput(present, j) = NONE THEN <<>>
    ELSE <<OptionalInput(present, j)>> \o TakeWhileSome(present, j + 1)

ParseError(msg) ==
    [ok |-> FALSE, err |-> msg, input_mapping |-> <<>>, output_mapping |-> <<>>,
     exit_condition |-> ExitCondition(NONE, NONE), cast |-> "none"]

\* faulty variant: the scan outputs are numbered from 0
loop__m(node) ==
    LET trip_count_input == OptionalInput(node.present, 1)
        condition_input == OptionalInput(node.present, 2)
        states == TakeWhileSome(node.present, 3)
        n == Len(states)
        nscan == IF node.body_outputs > 1 + n THEN node.body_outputs - (1 + n) ELSE 0
        mapped_inputs ==
            <<MIterIndex, MState(FromInput(condition_input))>>
            \o [j \in 1..n |-> MState(FromInput(states[j]))]
            \o [j \in 1..node.unresolved |-> MFull(2 + n + j - 1)]
        mapped_outputs ==
            <<OutputMapping(NoScan, NONE, TRUE, NONE)>>
            \o [j \in 1..n |-> OutputMapping(NoScan, j - 1, TRUE, NONE)]
            \o [j \in 1..nscan |-> OutputMapping(ScanInfo(j - 1, 0, 1), NONE, FALSE, NONE)]
    IN  IF trip_count_input = NONE \/ condition_input = NONE
        THEN ParseError("Loop has no exit condition")
        ELSE IF Len(mapped_inputs) # node.body_inputs
        THEN ParseError("Loop has unmatched number of inputs and subgraph inputs")
        ELSE IF Len(mapped_outputs) # node.body_outputs
        THEN ParseError("Loop has unmatched number of outputs and subgraph outputs")
        ELSE [ok |-> TRUE, err |-> "", input_mapping |-> mapped_inputs,
              output_mapping |-> mapped_outputs,
              exit_condition |-> ExitCondition(0, trip_count_input), cast |-> "i64"]

\* loop_: the mapping emitted for a Loop node, or the error of an ensure!
loop_(node) ==
    LET trip_count_input == OptionalInput(node.present, 1)
        condition_input == OptionalInput(node.present, 2)
        states == TakeWhileSome(node.present, 3)
        n == Len(states)
        nscan == IF node.body_outputs > 1 + n THEN node.body_outputs - (1 + n) ELSE 0
        mapped_inputs ==
            <<MIterIndex, MState(FromInput(condition_input))>>
            \o [j \in 1..n |-> MState(FromInput(states[j]))]
            \o [j \in 1..node.unresolved |-> MFull(2 + n + j - 1)]
        mapped_outputs ==
            <<OutputMapping(NoScan, NONE, TRUE, NONE)>>
            \o [j \in 1..n |-> OutputMapping(NoScan, j - 1, TRUE, NONE)]
            \o [j \in 1..nscan |-> OutputMapping(ScanInfo(n + j - 1, 0, 1), NONE, FALSE, NONE)]
    IN  IF trip_count_input = NONE \/ condition_input = NONE
        THEN ParseError("Loop has no exit condition")
        ELSE IF Len(mapped_inputs) # node.body_inputs
        THEN ParseError("Loop has unmatched number of inputs and subgraph inputs")
        ELSE IF Len(mapped_outputs) # node.body_outputs
        THEN ParseError("Loop has unmatched number of outputs and subgraph outputs")
        ELSE [ok |-> TRUE, err |-> "", input_mapping |-> mapped_inputs,
              output_mapping |-> mapped_outputs,
              exit_condition |-> ExitCondition(0, trip_count_input), cast |-> "i64"]

\* the Loop nodes given to the parser
RECURSIVE Flags(_)
Flags(len) ==
    IF len = 0 THEN {<<>>}
    ELSE Flags(len - 1) \cup {Append(f, b) : f \in {g \in Flags(len - 1) : Len(g) = len - 1},
                                            b \in BOOLEAN}

Nodes ==
    {Node(p, bi, bo, u) : p \in Flags(MaxNodeInputs), bi \in 1..MaxBody, bo \in 1..MaxBody,
                          u \in 0..MaxCaptured}

\* the parser is called on a Loop node
ParseStep(node) ==
    /\ parsed = <<>>
    /\ parsed' = <<[node |-> node, result |-> loop_(node)]>>
    /\ UNCHANGED <<solver, error, facts, op, alive, position, hidden_state, frozen, pc, who,
                   inputs, locals, status, result, execs, entry, hist, snap_hist, fresh,
                   paired>>

NextParse == \E node \in Nodes : ParseStep(node)

\* the parser alone; the op is the instance written after its output
SpecParse == InitOf({OpLoop(0)}) /\ [][NextParse]_vars

\* ------------------------------------------------------- the rule solver
\* a fact about one integer property of a tensor: AnyFact, or a concrete value >= 0
AnyFact == -3

\* the properties the rules speak about: inputs[0].shape[0], inputs[0].shape[1]
\* and outputs[0].shape[1]
Paths == 1..3

\* the facts given to the solver: only the output dimension may be known
InputFacts == {[p \in Paths |-> IF p = 3 THEN v ELSE AnyFact] : v \in {AnyFact, 2}}

VarExp(p) == [k |-> "var", n |-> p]

ConstExp(c) == [k |-> "const", n |-> c]

is_concrete(v) == v # AnyFact

\* item.get(context): the current value of an expression
ExpGet(e, context) == IF e.k = "const" THEN e.n ELSE context[e.n]

\* item.set(context, value): unifies the expression with the value; Ok(true) if
\* the context was changed, Err if the two cannot be unified
ExpSet(e, context, value) ==
    LET old == ExpGet(e, context) IN
    IF is_concrete(old) /\ old # value
    THEN [err |-> TRUE, changed |-> FALSE, context |-> context]
    ELSE IF e.k = "var" /\ ~is_concrete(old)
    THEN [err |-> FALSE, changed |-> TRUE, context |-> [context EXCEPT ![e.n] = value]]
    ELSE [err |-> FALSE, changed |-> FALSE, context |-> context]

EqualsRule(items) == [kind |-> "equals", items |-> items, closure |-> "none"]

GivenRule(item, closure) == [kind |-> "given", items |-> <<item>>, closure |-> closure]

\* the closure of a given rule, run on a fresh solver whose rules are taken:
\* "then_in" equates inputs[0].shape[0] with the value it is given
Closure(closure, value) ==
    IF closure = "then_in" THEN <<EqualsRule(<<VarExp(1), ConstExp(value)>>)>> ELSE <<>>

\* the first loop of EqualsRule::apply: the value of the first concrete item
FirstConcrete(items, context) ==
    LET S == {j \in 1..Len(items) : is_concrete(ExpGet(items[j], context))} IN
    IF S = {} THEN AnyFact
    ELSE ExpGet(items[CHOOSE j \in S : \A l \in S : j <= l], context)

\* the second loop of EqualsRule::apply, stopped by the first Err
RECURSIVE SetAll(_, _, _, _)
SetAll(items, j, value, acc) ==
    IF j > Len(items) \/ acc.err THEN acc
    ELSE LET r == ExpSet(items[j], acc.context, value) IN
         SetAll(items, j + 1, value,
                [err |-> r.err, changed |-> acc.changed \/ r.changed,
                 context |-> r.context])

\* faulty variant: only the first item is set
EqualsRule_apply_m(rule, context) ==
    LET value == FirstConcrete(rule.items, context) IN
    IF is_concrete(value)
    THEN LET r == ExpSet(rule.items[1], context, value) IN
         [err |-> r.err, used |-> r.changed, added |-> <<>>, called |-> <<>>,
          context |-> r.context]
    ELSE [err |-> FALSE, used |-> FALSE, added |-> <<>>, called |-> <<>>,
          context |-> context]

EqualsRule_apply(rule, context) ==
    LET value == FirstConcrete(rule.items, context) IN
    IF is_concrete(value)
    THEN LET r == SetAll(rule.items, 1, value,
                         [err |-> FALSE, changed |-> FALSE, context |-> context]) IN
         [err |-> r.err, used |-> r.changed, added |-> <<>>, called |-> <<>>,
          context |-> r.context]
    ELSE [err |-> FALSE, used |-> FALSE, added |-> <<>>, called |-> <<>>,
          context |-> context]

\* faulty variant: the closure is called whatever the value is, as in WithRule::apply
GivenRule_apply_m(rule, context) ==
    LET value == ExpGet(rule.items[1], context) IN
    [err |-> FALSE, used |-> TRUE, added |-> Closure(rule.closure, value),
     called |-> <<value>>, context |-> context]

\* GivenRule::apply; `called` holds the value the closure was called with
GivenRule_apply(rule, context) ==
    LET value == ExpGet(rule.items[1], context) IN
    IF is_concrete(value)
    THEN [err |-> FALSE, used |-> TRUE, added |-> Closure(rule.closure, value),
          called |-> <<value>>, context |-> context]
    ELSE [err |-> FALSE, used |-> FALSE, added |-> <<>>, called |-> <<>>,
          context |-> context]

apply(rule, context) ==
    IF rule.kind = "equals" THEN EqualsRule_apply(rule, context)
    ELSE GivenRule_apply(rule, context)

\* the rules a solver may hold
RulePool ==
    {EqualsRule(<<VarExp(1), VarExp(2)>>), EqualsRule(<<VarExp(2), VarExp(3)>>),
     EqualsRule(<<VarExp(2), ConstExp(3)>>), EqualsRule(<<ConstExp(1), ConstExp(2)>>),
     EqualsRule(<<ConstExp(2), ConstExp(2)>>), GivenRule(VarExp(2), "then_in")}

RECURSIVE RuleLists(_)
RuleLists(len) ==
    IF len = 0 THEN {<<>>}
    ELSE RuleLists(len - 1)
         \cup {Append(l, r) : l \in {g \in RuleLists(len - 1) : Len(g) = len - 1},
                              r \in RulePool}

\* the locals of infer_facts at its entry
SolverState(self_rules, f) ==
    [self_rules |-> self_rules, facts |-> f, context |-> f, changed |-> TRUE,
     added_rules |-> <<>>,
     rules |-> [j \in 1..Len(self_rules) |-> [used |-> FALSE, rule |-> self_rules[j]]],
     ix |-> 0, pc |-> "while", calls |-> <<>>,
     applied |-> [j \in 1..Len(self_rules) |-> 0],
     passes |-> 0, before |-> [used |-> 0, rules |-> Len(self_rules)]]

\* faulty variant: the error of a rule is dropped
for_body_m(s) ==
    LET e == s.rules[s.ix]
        r == apply(e.rule, s.context) IN
    IF e.used THEN [s EXCEPT !.ix = s.ix + 1]
    ELSE [s EXCEPT !.context = r.context,
                   !.rules[s.ix].used = e.used \/ r.used,
                   !.changed = s.changed \/ r.used \/ Len(r.added) > 0,
                   !.added_rules = s.added_rules \o r.added,
                   !.calls = s.calls \o [j \in 1..Len(r.called) |->
                                            [rule |-> s.ix, value |-> r.called[j]]],
                   !.applied[s.ix] = s.applied[s.ix] + 1,
                   !.ix = s.ix + 1]

\* one turn of the for loop of infer_facts, on the rule at s.ix
for_body(s) ==
    LET e == s.rules[s.ix]
        r == apply(e.rule, s.context) IN
    IF e.used THEN [s EXCEPT !.ix = s.ix + 1]
    ELSE IF r.err THEN [s EXCEPT !.pc = "err", !.applied[s.ix] = s.applied[s.ix] + 1]
    ELSE [s EXCEPT !.context = r.context,
                   !.rules[s.ix].used = e.used \/ r.used,
                   !.changed = s.changed \/ r.used \/ Len(r.added) > 0,
                   !.added_rules = s.added_rules \o r.added,
                   !.calls = s.calls \o [j \in 1..Len(r.called) |->
                                            [rule |-> s.ix, value |-> r.called[j]]],
                   !.applied[s.ix] = s.applied[s.ix] + 1,
                   !.ix = s.ix + 1]

\* the number of rules marked used
NbUsed(rules) == Cardinality({j \in 1..Len(rules) : rules[j].used})

\* faulty variant: the loop is left after the first pass
while_head_m(s) ==
    IF s.changed /\ s.passes = 0
    THEN [s EXCEPT !.changed = FALSE, !.ix = 1, !.pc = "for",
                   !.passes = s.passes + 1,
                   !.before = [used |-> NbUsed(s.rules), rules |-> Len(s.rules)]]
    ELSE [s EXCEPT !.pc = "done"]

\* the test of `while changed`: a new pass begins, or the loop is left; `passes`
\* counts the passes begun and `before` holds the number of used rules and of rules
\* when the pass began
while_head(s) ==
    IF s.changed
    THEN [s EXCEPT !.changed = FALSE, !.ix = 1, !.pc = "for",
                   !.passes = s.passes + 1,
                   !.before = [used |-> NbUsed(s.rules), rules |-> Len(s.rules)]]
    ELSE [s EXCEPT !.pc = "done"]

\* `for rule in added_rules.drain(..)`: the added rules join the list, unused
drain(s) ==
    [s EXCEPT !.rules = s.rules \o [j \in 1..Len(s.added_rules) |->
                                      [used |-> FALSE, rule |-> s.added_rules[j]]],
              !.applied = s.applied \o [j \in 1..Len(s.added_rules) |-> 0],
              !.added_rules = <<>>,
              !.pc = "while"]

\* infer_facts from the locals s to its return
RECURSIVE infer_facts(_)
infer_facts(s) ==
    IF s.pc \in {"done", "err"} THEN s
    ELSE IF s.pc = "while" THEN infer_facts(while_head(s))
    ELSE IF s.ix <= Len(s.rules) THEN infer_facts(for_body(s))
    ELSE infer_facts(drain(s))

\* Solver::infer_facts is called on a solver holding self_rules
InferFacts(self_rules, f) ==
    /\ solver = <<>>
    /\ solver' = <<SolverState(self_rules, f)>>
    /\ UNCHANGED <<parsed, error, facts, op, alive, position, hidden_state, frozen, pc, who,
                   inputs, locals, status, result, execs, entry, hist, snap_hist, fresh,
                   paired>>

\* `while changed`: a new pass over the rules begins
SolverPass ==
    /\ solver # <<>>
    /\ solver[1].pc = "while" /\ solver[1].changed
    /\ solver' = <<while_head(solver[1])>>
    /\ UNCHANGED <<parsed, error, facts, op, alive, position, hidden_state, frozen, pc, who,
                   inputs, locals, status, result, execs, entry, hist, snap_hist, fresh,
                   paired>>

\* the next rule of the pass is skipped or applied
SolverRule ==
    /\ solver # <<>>
    /\ solver[1].pc = "for" /\ solver[1].ix <= Len(solver[1].rules)
    /\ solver' = <<for_body(solver[1])>>
    /\ UNCHANGED <<parsed, error, facts, op, alive, position, hidden_state, frozen, pc, who,
                   inputs, locals, status, result, execs, entry, hist, snap_hist, fresh,
                   paired>>

\* the pass is over: the rules added during the pass join the list
SolverDrain ==
    /\ solver # <<>>
    /\ solver[1].pc = "for" /\ solver[1].ix > Len(solver[1].rules)
    /\ solver' = <<drain(solver[1])>>
    /\ UNCHANGED <<parsed, error, facts, op, alive, position, hidden_state, frozen, pc, who,
                   inputs, locals, status, result, execs, entry, hist, snap_hist, fresh,
                   paired>>

\* `while changed` is false: Ok((context.inputs, context.outputs))
SolverReturn ==
    /\ solver # <<>>
    /\ solver[1].pc = "while" /\ ~solver[1].changed
    /\ solver' = <<while_head(solver[1])>>
    /\ UNCHANGED <<parsed, error, facts, op, alive, position, hidden_state, frozen, pc, who,
                   inputs, locals, status, result, execs, entry, hist, snap_hist, fresh,
                   paired>>

NextSolver ==
    \/ \E rs \in RuleLists(MaxRules), f \in InputFacts : InferFacts(rs, f)
    \/ SolverPass
    \/ SolverRule
    \/ SolverDrain
    \/ SolverReturn

\* the solver alone
SpecSolver == InitOf({OpLoop(0)}) /\ [][NextSolver]_vars

\* ================================================================ claims
\* eval of driver `who` has returned Ok(outputs)
Returned == pc = "done" /\ status[who] = "ok"

\* the driver was fresh (as built by LirScan::state) when that eval began
Fresh == entry.position = 0 /\ entry.hidden_state = <<>>

HasTrip == op.exit_condition.trip_count_from_input # NONE
HasCond == op.exit_condition.condition_from_state # NONE
TripValue == Scalar(inputs[op.exit_condition.trip_count_from_input + 1])
CondIdx == op.exit_condition.condition_from_state + 1

\* the body outputs that are fed back as hidden state, in output-mapping order
RECURSIVE StateOutsFrom(_, _, _)
StateOutsFrom(o, outs, ix) ==
    IF ix = 0 THEN <<>>
    ELSE IF o.output_mapping[ix].state
         THEN Append(StateOutsFrom(o, outs, ix - 1), outs[ix])
         ELSE StateOutsFrom(o, outs, ix - 1)

StateOuts(o, outs) == StateOutsFrom(o, outs, Len(o.output_mapping))

\* the body inputs that come from hidden state, in input-mapping order
RECURSIVE StateInsFrom(_, _, _)
StateInsFrom(o, ins, ix) ==
    IF ix = 0 THEN <<>>
    ELSE IF o.input_mapping[ix].kind = "State"
         THEN Append(StateInsFrom(o, ins, ix - 1), ins[ix])
         ELSE StateInsFrom(o, ins, ix - 1)

StateIns(o, ins) == StateInsFrom(o, ins, Len(o.input_mapping))

\* every last_value_slot output of the returned eval holds the body output
\* of the last executed iteration
LastValuesFromFinalIteration ==
    \A ix \in 1..Len(op.output_mapping) :
        op.output_mapping[ix].last_value_slot # NONE =>
            result[who][op.output_mapping[ix].last_value_slot + 1]
                = execs[Len(execs)].outs[ix]

\* C1: on a fresh driver with skip = 0 and only a trip count n (no
\* condition), a returned eval has executed the body exactly n times, with
\* the iteration indices 0, 1, .., n-1 in this order.
C1_TripCountRunsExactly ==
    (Returned /\ Fresh /\ op.skip = 0 /\ HasTrip /\ ~HasCond)
        => /\ Len(execs) = TripValue
           /\ \A j \in 1..Len(execs) : execs[j].i = j - 1

C1_Witness ==
    /\ Returned /\ Fresh /\ op.skip = 0 /\ HasTrip /\ ~HasCond
    /\ TripValue = 3
    /\ Len(execs) = 3

\* C2: with condition_from_state = Some(idx), the hidden state the body is
\* executed on always has a false condition at idx: that state is the one
\* initialised (or left by the previous eval) before the first execution
\* and the state fed back by the previous execution afterwards. So an
\* initially true condition gives no execution at all.
C2_ConditionTestedBeforeBody ==
    HasCond =>
        /\ \A j \in 1..Len(execs) :
              /\ Scalar(execs[j].hs[CondIdx]) = 0
              /\ execs[j].hs = IF j = 1 THEN entry.hs
                               ELSE StateOuts(op, execs[j - 1].outs)
        /\ (pc # "idle" /\ Scalar(entry.hs[CondIdx]) = 1) => execs = <<>>

C2_Witness ==
    /\ HasCond /\ ~HasTrip /\ Returned
    /\ Len(execs) = 2
    /\ Scalar(hidden_state[who][CondIdx]) = 1

\* C3: with a trip count n and a condition, on a fresh driver with skip = 0
\* the number k of executed iterations is min(n, c), c the first iteration
\* before which the condition state is true: k <= n, the condition was false
\* before each executed iteration, and if k < n it is true after the last.
\* For the body "loop" the condition is c0 before iteration 0 and (j >= lim)
\* before iteration j > 0, so c = 0 if c0, else lim.
C3_StopsAtFirstOfBoth ==
    (Returned /\ Fresh /\ op.skip = 0 /\ HasTrip /\ HasCond)
        => LET k == Len(execs)
               c0 == Scalar(inputs[2])
               lim == Scalar(inputs[4])
           IN  /\ k <= TripValue
               /\ \A j \in 1..k : Scalar(execs[j].hs[CondIdx]) = 0
               /\ k < TripValue => Scalar(hidden_state[who][CondIdx]) = 1
               /\ k = Min(TripValue, IF c0 = 1 THEN 0 ELSE lim)

C3_Witness ==
    /\ Returned /\ Fresh /\ op.skip = 0 /\ HasTrip /\ HasCond
    /\ TripValue = 3
    /\ Len(execs) = 2

\* C4: whenever a returned eval has executed at least one iteration, each
\* last_value_slot output is the body output of the final executed iteration.
C4_LastValueOfFinalIteration ==
    (Returned /\ Len(execs) >= 1) => LastValuesFromFinalIteration

\* C5: on a fresh driver with skip = S and trip count N >= S (no condition)
\* the eval executes the body exactly N - S times and the last_value_slot
\* output is the body output of the last execution.
C5_SkipThenRun ==
    (Returned /\ Fresh /\ HasTrip /\ ~HasCond /\ TripValue >= op.skip)
        => /\ Len(execs) = TripValue - op.skip
           /\ Len(execs) >= 1 => LastValuesFromFinalIteration

C5_Witness ==
    /\ Returned /\ Fresh /\ HasTrip /\ ~HasCond
    /\ op.skip = 2 /\ TripValue = 5
    /\ Len(execs) = 3
    /\ LastValuesFromFinalIteration

\* the j-th executed body call was given iteration index x: its IterIndex
\* input is x, its Scan inputs are the slices at chunk index x and, once its
\* outputs are distributed, its scan outputs sit in the accumulators at index
\* x (assigning them there again changes nothing)
FedIndex(j, x) ==
    /\ \A p \in 1..Len(op.input_mapping) :
          LET m == op.input_mapping[p] IN
          /\ m.kind = "IterIndex" => Scalar(execs[j].ins[p]) = x
          /\ m.kind = "Scan" =>
                LET sl == slice_input(IntoTensor(inputs[m.info.slot + 1]), m.info.axis, x,
                                      m.info.chunk)
                IN  ~sl.fault /\ IntoTensor(execs[j].ins[p]) = sl.t
    /\ (j < Len(execs) \/ pc = "loop" \/ Returned) =>
          \A ix \in 1..Len(op.output_mapping) :
              LET m == op.output_mapping[ix] IN
              m.scan.slot # NONE =>
                  LET asg == assign_output(outputs[m.scan.slot + 1], m.scan.axis,
                                           IntoTensor(execs[j].outs[ix]), x, m.scan.chunk < 0)
                  IN  ~asg.fault /\ asg.t = outputs[m.scan.slot + 1]

\* the steps the eval of `who` skips: position <= skip for the first
\* skip - (position at entry) steps
SkippedSteps == IF op.skip > entry.position THEN op.skip - entry.position ELSE 0

\* C6 (as stated): skipped steps do not advance the iteration index; the
\* k-th executed body call (k from 0) gets IterIndex k, slices at chunk index
\* k and has its scan outputs assigned at index k.
C6_SkipKeepsIndex ==
    \A j \in 1..Len(execs) : FedIndex(j, j - 1)

\* C6 (amended): skipped steps advance position and the iteration index; in
\* an eval that skips s steps the k-th executed body call gets IterIndex
\* s + k, slices at chunk index s + k and scan outputs assigned at s + k.
C6_SkipAdvancesIndex ==
    \A j \in 1..Len(execs) : FedIndex(j, SkippedSteps + j - 1)

C6_Witness ==
    /\ Returned /\ Fresh
    /\ op.skip = 1
    /\ op.input_mapping[1].kind = "Scan"
    /\ Len(execs) = 2
    /\ FedIndex(1, 1) /\ FedIndex(2, 2)

\* the hidden state an eval starts its first executed iteration with: the
\* initializer values if the driver never ran the body, else the state
\* outputs of its previous executed iteration
CarriedState ==
    IF entry.last_out = <<>> THEN InitState(op, hist[who].init_inputs)
    ELSE StateOuts(op, entry.last_out[1])

\* C7: in every executed iteration the j-th State input mapping receives the
\* j-th hidden-state entry: the j-th initializer value before the first
\* iteration of the driver, else the body output of the j-th state output
\* mapping of the previous executed iteration.
C7_HiddenStateInOrder ==
    \A j \in 1..Len(execs) :
        StateIns(op, execs[j].ins)
            = IF j = 1 THEN CarriedState ELSE StateOuts(op, execs[j - 1].outs)

C7_Witness ==
    /\ NbStates(op) = 2
    /\ pc = "run"
    /\ hist[who].calls = 2
    /\ Len(execs) = 2
    /\ entry.last_out # <<>>
    /\ StateIns(op, execs[1].ins) = StateOuts(op, entry.last_out[1])
    /\ StateIns(op, iter_inputs) = StateOuts(op, execs[1].outs)

\* C8: for an op with as many State outputs as State inputs, hidden_state has
\* one entry per State input mapping after initialisation and after every
\* completed iteration (so at every return), and is empty between input
\* preparation and output distribution.
C8_HiddenStateLength ==
    Len(StateOuts(op, op.output_mapping)) = NbStates(op) =>
        /\ (pc = "loop" \/ Returned) => Len(hidden_state[who]) = NbStates(op)
        /\ pc \in {"run", "dist"} => Len(hidden_state[who]) = 0

C8_Witness ==
    /\ NbStates(op) = 2
    /\ pc = "dist"
    /\ Len(hidden_state[who]) = 0
    /\ Len(execs) = 2

\* C9: on a driver with at least one State mapping, the first eval reads the
\* initializers; every later eval begins with the hidden state and position
\* the previous eval left and reads no initializer, whatever its inputs.
C9_InitializersReadOnce ==
    [][\A d \in Drivers :
          (hist'[d].calls = hist[d].calls + 1 /\ who' = d /\ NbStates(op) >= 1) =>
              /\ position'[d] = position[d]
              /\ hist[d].calls = 0 =>
                    /\ hidden_state'[d] = InitState(op, inputs')
                    /\ hist'[d].init_reads = 1
              /\ hist[d].calls >= 1 =>
                    /\ hidden_state'[d] = hidden_state[d]
                    /\ hist'[d].init_reads = hist[d].init_reads]_vars

C9_Witness ==
    /\ NbStates(op) >= 1
    /\ hist[who].calls = 2
    /\ pc = "loop"
    /\ hist[who].init_reads = 1
    /\ InitState(op, inputs) # entry.hs
    /\ hidden_state[who] = entry.hidden_state

RECURSIVE LoopFrom(_, _, _, _, _, _)
LoopFrom(o, ins, hs, outs, it, n) ==
    IF IterCountReached(n, it) \/ ConditionState(o, hs).stop THEN outs
    ELSE LET prep == PrepareInputs(o, hs, ins, it)
             dist == Distribute(o, Body(o.plan, prep.inputs), outs, prep.hs, it, n)
         IN  LoopFrom(o, ins, dist.hs, dist.outputs, it + 1, n)

\* the outer outputs of one uninterrupted eval on a fresh driver (skip = 0)
UnbrokenRun(o, ins) ==
    LET n == EvalIters(o, ins).n
        outs == LoopFrom(o, ins, InitState(o, ins), AllocOutputs(o, n), 0, n)
    IN  [j \in 1..Len(outs) |-> IntoTValue(outs[j])]

\* the inputs of a call, with another trip count
WithTrip(o, ins, n) ==
    [ins EXCEPT ![o.exit_condition.trip_count_from_input + 1] = IntoTValue(Tensor0("tdim", n))]

\* the restored driver has run the rest of a loop that was frozen after the
\* first j iterations: the snapshot was taken after the first eval (trip
\* count j) of a fresh driver, the restored driver was given the trip count r
SplitRun ==
    /\ Returned /\ who = 2 /\ paired
    /\ HasTrip /\ ~HasCond /\ op.skip = 0
    /\ snap_hist.calls = 1 /\ hist[2].calls = 2
    /\ Scalar(hist[2].init_inputs[op.exit_condition.trip_count_from_input + 1]) > 0
    /\ TripValue > 0

\* C11: a loop frozen after j of its n iterations (0 < j < n), restored into
\* a new driver from the snapshot and run for the remaining n - j iterations,
\* returns the outer outputs of the uninterrupted run of n iterations
C11_ResumeMidLoop ==
    SplitRun =>
        LET j == Scalar(hist[2].init_inputs[op.exit_condition.trip_count_from_input + 1])
        IN  result[2] = UnbrokenRun(op, WithTrip(op, hist[2].init_inputs, j + TripValue))

\* the reference run is what eval returns on a fresh driver
UnbrokenRunIsEval ==
    (Returned /\ Fresh /\ op.skip = 0 /\ iters # NONE) => result[who] = UnbrokenRun(op, inputs)

\* ---- C12
\* the (output mapping, kind) pairs that name an outer output slot
SlotNames(o) ==
    {<<ix, "scan">> : ix \in {x \in 1..Len(o.output_mapping) : o.output_mapping[x].scan.slot # NONE}}
    \cup {<<ix, "last">> :
            ix \in {x \in 1..Len(o.output_mapping) : o.output_mapping[x].last_value_slot # NONE}}

SlotOf(o, e) ==
    IF e[2] = "scan" THEN o.output_mapping[e[1]].scan.slot
    ELSE o.output_mapping[e[1]].last_value_slot

\* the outer output slots are exactly 0..K-1, each named once
DenseSlots(o) ==
    /\ {SlotOf(o, e) : e \in SlotNames(o)} = 0..(Cardinality(SlotNames(o)) - 1)
    /\ \A e, f \in SlotNames(o) : SlotOf(o, e) = SlotOf(o, f) => e = f

\* the outputs of the running eval are allocated
Allocated == pc \in {"loop", "run", "dist"} \/ Returned

\* the axis length eval gives the accumulator of output mapping ix
AccLen(o, ix, n) ==
    IF HintToUsize(o.output_mapping[ix].full_dim_hint) # NONE
    THEN HintToUsize(o.output_mapping[ix].full_dim_hint)
    ELSE o.plan.output_facts[ix].shape[o.output_mapping[ix].scan.axis + 1] * n

\* C12: for an op whose outer output slots are exactly {0..K-1} without
\* duplicates, eval holds and returns exactly K tensors, and the tensor at
\* position s is the accumulator (a tensor of the scan length that holds the
\* chunks assigned so far) or the last value (the placeholder or a body
\* output) of the mapping that names slot s, whatever the mapping order
C12_OutputsBySlot ==
    (Allocated /\ DenseSlots(op)) =>
        /\ Len(outputs) = Cardinality(SlotNames(op))
        /\ Returned =>
              result[who] = [s \in 1..Cardinality(SlotNames(op)) |-> IntoTValue(outputs[s])]
        /\ \A e \in SlotNames(op) :
              LET m == op.output_mapping[e[1]]
                  t == outputs[SlotOf(op, e) + 1]
              IN  IF e[2] = "scan"
                  THEN /\ t.dt = op.plan.output_facts[e[1]].dt
                       /\ t.shape = <<AccLen(op, e[1], iters)>>
                       /\ \A j \in 1..Len(execs) :
                            (j < Len(execs) \/ pc = "loop" \/ Returned) =>
                                assign_output(t, m.scan.axis, IntoTensor(execs[j].outs[e[1]]),
                                              execs[j].i, m.scan.chunk < 0).t = t
                  ELSE \/ t = TensorDefault
                       \/ \E j \in 1..Len(execs) :
                            execs[j].outs # <<>> /\ t = IntoTensor(execs[j].outs[e[1]])

\* a scan op whose mappings name slot 1 before slot 0 has returned the
\* accumulator in position 1 and the last value in position 0
C12_Witness ==
    /\ Returned /\ DenseSlots(op) /\ Len(execs) >= 2
    /\ op.output_mapping[1].scan.slot = 1 /\ op.output_mapping[2].last_value_slot = 0
    /\ result[who][2].var.shape = <<AccLen(op, 1, iters)>>
    /\ result[who][1] = execs[Len(execs)].outs[2]

\* ---- C13
\* the op scans outer input 0 into outer output 1 through an identity body,
\* on the same axis with the same chunk, without trip count, condition or hint
ScanIdentity ==
    /\ op.plan.body = "scan"
    /\ op.input_mapping[1].kind = "Scan"
    /\ op.output_mapping[1].scan.slot = 1
    /\ op.output_mapping[1].scan.axis = op.input_mapping[1].info.axis
    /\ op.output_mapping[1].scan.chunk = op.input_mapping[1].info.chunk
    /\ op.output_mapping[1].full_dim_hint = NONE
    /\ ~HasTrip /\ ~HasCond

ScanChunk == op.input_mapping[1].info.chunk
\* the scanned input X and the returned accumulator A
ScanX == IntoTensor(inputs[1])
ScanA == IntoTensor(result[who][2])
ScanLen == ScanX.shape[1]

\* C13: forward scan with an identity body, chunk k >= 1, skip = 0: the
\* returned accumulator has axis length ceil(len/k) * k and its positions
\* 0..len-1 hold the input elements in order
C13_ForwardScanIdentity ==
    (Returned /\ ScanIdentity /\ ScanChunk >= 1 /\ op.skip = 0) =>
        /\ ScanA.shape = <<DivCeil(ScanLen, ScanChunk) * ScanChunk>>
        /\ \A p \in 1..ScanLen : ScanA.data[p] = ScanX.data[p]

\* a forward scan of three elements by chunks of two has returned
C13_Witness ==
    /\ Returned /\ ScanIdentity /\ ScanChunk = 2 /\ op.skip = 0 /\ ScanLen = 3
    /\ Len(execs) = 2
    /\ ScanA.data = <<11, 12, 13, UNINIT>>

\* ---- C14
\* C14: reverse scan with an identity body, chunk -k, skip = 0: the loop
\* runs n = ceil(len/k) iterations and the accumulator of length n * k holds
\* X in its original order in its last len positions, A[n*k - len + j] = X[j]
C14_ReverseScanIdentity ==
    (Returned /\ ScanIdentity /\ ScanChunk <= -1 /\ op.skip = 0) =>
        LET k == Abs(ScanChunk)
            n == DivCeil(ScanLen, k)
        IN  /\ Len(execs) = n
            /\ ScanA.shape = <<n * k>>
            /\ \A j \in 0..(ScanLen - 1) : ScanA.data[n * k - ScanLen + j + 1] = ScanX.data[j + 1]

\* the same statement for chunk = -1 only
ReverseScanByOne ==
    ScanChunk = -1 => C14_ReverseScanIdentity

\* what eval returns for X = [11, 12, 13] and chunk = -2
ReverseScanByTwo ==
    (Returned /\ ScanIdentity /\ ScanChunk = -2 /\ op.skip = 0 /\ ScanLen = 3) =>
        ScanA.data = <<UNINIT, UNINIT, 11, 12>>

\* ---- C15
\* the scan is ragged: the input length is not a multiple of the chunk width
Ragged == Returned /\ ScanIdentity /\ op.skip = 0 /\ ScanLen % Abs(ScanChunk) # 0

\* the slice the j-th executed body call received, and the offset and count
\* of the Assign that stored its scan output
SliceOf(j) == IntoTensor(execs[j].ins[1])
RangeOf(j) ==
    assign_range(ScanA.shape[1], IntoTensor(execs[j].outs[1]).shape[1], execs[j].i,
                 ScanChunk < 0)

\* C15 as stated: when len mod |chunk| # 0 the accumulator has axis length
\* ceil(len/|chunk|) * w, and the positions of the last slice beyond the end
\* of the input (its uninitialized tail) are never written by Assign: the
\* count clamp trims them
C15_RaggedTailNeverWritten ==
    Ragged =>
        /\ ScanA.shape = <<DivCeil(ScanLen, Abs(ScanChunk)) * Abs(ScanChunk)>>
        /\ \A j \in 1..Len(execs) : \A q \in 1..Abs(ScanChunk) :
              SliceOf(j).data[q] = UNINIT => q > RangeOf(j).count

\* C15 amended: the accumulator has axis length ceil(len/|chunk|) * w, and
\* the count clamp does not trim the final chunk: the Assign of the last
\* iteration copies elements of the uninitialized tail of the last slice
\* into the accumulator, and with a forward chunk every Assign has count = w,
\* so positions len..ceil(len/|chunk|)*w - 1 are written with that tail
C15_RaggedTailWritten ==
    Ragged =>
        LET k == Abs(ScanChunk)
            n == DivCeil(ScanLen, k)
        IN  /\ ScanA.shape = <<n * k>>
            /\ Len(execs) = n
            /\ \E q \in 1..RangeOf(n).count :
                  /\ SliceOf(n).data[q] = UNINIT
                  /\ ScanA.data[RangeOf(n).offset + q] = UNINIT
            /\ ScanChunk > 0 =>
                  /\ \A j \in 1..n : RangeOf(j).count = k /\ RangeOf(j).offset = (j - 1) * k
                  /\ \A p \in (ScanLen + 1)..(n * k) :
                        /\ p > RangeOf(n).offset
                        /\ SliceOf(n).data[p - RangeOf(n).offset] = UNINIT

\* three elements scanned forward by chunks of two: the second Assign has
\* written both elements of the slice [13, _]
C15_Witness ==
    /\ Ragged /\ ScanChunk = 2 /\ ScanLen = 3 /\ Len(execs) = 2
    /\ SliceOf(2).data = <<13, UNINIT>>
    /\ RangeOf(2) = [fault |-> FALSE, offset |-> 2, count |-> 2]
    /\ ScanA.data = <<11, 12, 13, UNINIT>>

\* C15 as stated, for forward chunks only
RaggedTailNeverWrittenForward ==
    ScanChunk > 0 => C15_RaggedTailNeverWritten

\* ---- C16
\* the first Scan input mapping of the op
FirstScan == SelectSeq(op.input_mapping, IsScanInput)[1].info
FirstScanLen == IntoTensor(inputs[FirstScan.slot + 1]).shape[FirstScan.axis + 1]

\* neither exit condition is set and the op has a Scan input
ScanCounted ==
    /\ ~HasTrip /\ ~HasCond
    /\ SelectSeq(op.input_mapping, IsScanInput) # <<>>
    /\ Fresh /\ op.skip = 0 /\ pc # "idle"

\* C16: with neither trip_count_from_input nor condition_from_state set, an
\* eval on a fresh driver with skip = 0 executes the body exactly
\* ceil(len/|chunk|) times, len and chunk taken from the first Scan input
\* mapping, for positive and negative chunk
C16_ScanIterationCount ==
    ScanCounted =>
        /\ Len(execs) <= DivCeil(FirstScanLen, Abs(FirstScan.chunk))
        /\ pc = "done" =>
              /\ status[who] = "ok"
              /\ Len(execs) = DivCeil(FirstScanLen, Abs(FirstScan.chunk))

\* three elements scanned backward by chunks of two: two body executions
C16_Witness ==
    /\ ScanCounted /\ Returned
    /\ FirstScan.chunk = -2 /\ FirstScanLen = 3 /\ Len(execs) = 2

\* ---- C17
\* C17: after an eval on a fresh driver that executed k body iterations with
\* skip S, position = k + S: position counts only skipped steps and executed
\* iterations
C17_PositionCountsIterations ==
    (Returned /\ Fresh) => position[who] = Len(execs) + op.skip

\* what the code does: the step that breaks out of the loop is counted too
PositionCountsBreak ==
    (Returned /\ Fresh) => position[who] = Len(execs) + op.skip + 1

\* the early-exit scenario: condition only, two executed iterations
EarlyExitPosition ==
    (Returned /\ Fresh /\ HasCond /\ ~HasTrip /\ Len(execs) = 2) =>
        position[who] = 2 + op.skip + 1

\* ---- C18
\* output_facts has been called and has returned facts
Typed == facts # <<>> /\ ~facts[1].result.panic

\* the scan-derived iteration count output_facts uses: from the fact of the
\* first Scan input mapping
TypedIters ==
    DivCeil(facts[1].inputs[FirstScan.slot + 1].shape[FirstScan.axis + 1], Abs(FirstScan.chunk))

\* C18: output_facts returns one fact per outer output slot in ascending
\* slot order: for a last_value_slot the body output fact unchanged, for a
\* scan output the body output fact with the scan axis replaced by
\* full_dim_hint when present, else by body_dim * ceil(len/|chunk|) taken
\* from the first Scan input mapping
C18_OutputFactsBySlot ==
    (Typed /\ DenseSlots(op)) =>
        /\ Len(facts[1].result.facts) = Cardinality(SlotNames(op))
        /\ \A e \in SlotNames(op) :
              LET m == op.output_mapping[e[1]]
                  body_fact == op.plan.output_facts[e[1]]
                  f == facts[1].result.facts[SlotOf(op, e) + 1]
              IN  IF e[2] = "last" THEN f = body_fact
                  ELSE /\ f.dt = body_fact.dt
                       /\ f.shape =
                            [body_fact.shape EXCEPT ![m.scan.axis + 1] =
                                IF m.full_dim_hint # NONE THEN m.full_dim_hint
                                ELSE body_fact.shape[m.scan.axis + 1] * TypedIters]

\* the op that names slot 1 (scan, no hint) before slot 0 (last value) has
\* been typed for an input of three elements scanned by chunks of two
C18_Witness ==
    /\ Typed
    /\ op.output_mapping[1].scan.slot = 1 /\ op.output_mapping[1].full_dim_hint = NONE
    /\ op.output_mapping[2].last_value_slot = 0
    /\ FirstScan.chunk = -2 /\ facts[1].inputs[1].shape = <<3>>
    /\ facts[1].result.facts = <<Fact("i64", <<>>), Fact("i64", <<4>>)>>

\* the same op with a symbolic full_dim_hint has been typed
TypedWithHint ==
    /\ Typed /\ op.output_mapping[1].full_dim_hint = SYMBOL
    /\ facts[1].result.facts = <<Fact("i64", <<>>), Fact("i64", <<SYMBOL>>)>>

\* ---- C19
\* eval was called with a trip count input that holds a negative integer or
\* is not an integer scalar
BadTrip ==
    /\ HasTrip /\ pc # "idle"
    /\ LET t == IntoTensor(inputs[op.exit_condition.trip_count_from_input + 1])
       IN  t.dt \notin {"tdim", "i64"} \/ t.shape # <<>> \/ t.data[1] < 0

\* C19: if the input named by trip_count_from_input holds a negative integer
\* (or is not an integer scalar), eval returns an error to its caller and the
\* body is executed zero times in that call
C19_BadTripCountIsError ==
    BadTrip =>
        /\ pc = "done" /\ status[who] = "failed"
        /\ execs = <<>>
        /\ result[who] = <<>>

\* eval was called with the trip count -1 and has returned an error
C19_Witness ==
    /\ BadTrip /\ TripValue = -1
    /\ IntoTensor(inputs[op.exit_condition.trip_count_from_input + 1]).shape = <<>>
    /\ pc = "done" /\ status[who] = "failed" /\ execs = <<>>

\* eval was called with a trip count that is not a scalar, or not an integer
BadTripShapeOrType ==
    /\ BadTrip /\ TripValue >= 0 /\ pc = "done" /\ status[who] = "failed"

\* ---- C20
\* condition_from_state names no entry of the hidden state hs
CondOutOfRange(hs) == op.exit_condition.condition_from_state >= Len(hs)

\* condition_from_state names no entry of hs, or one that is not a scalar
\* boolean
CondBad(hs) ==
    \/ CondOutOfRange(hs)
    \/ IntoTensor(hs[CondIdx]).dt # "bool"
    \/ IntoTensor(hs[CondIdx]).shape # <<>>

\* C20: if condition_from_state = Some(idx) with idx not smaller than the
\* number of hidden-state entries, or the referenced state is not a scalar
\* boolean, eval surfaces an error value to its caller instead of aborting,
\* and does not execute the body for that iteration
C20_BadConditionIsError ==
    HasCond =>
        /\ \A j \in 1..Len(execs) : ~CondBad(execs[j].hs)
        /\ (pc = "done" /\ CondBad(hidden_state[who])) => status[who] = "failed"

\* the same statement for a condition index that is in range
BadConditionInRange ==
    (pc # "idle" /\ ~CondOutOfRange(entry.hs)) => C20_BadConditionIsError

\* the condition names a state that is not a boolean: eval has returned an error
NotBoolIsError ==
    /\ HasCond /\ pc = "done" /\ ~CondOutOfRange(hidden_state[who])
    /\ CondBad(hidden_state[who]) /\ status[who] = "failed" /\ execs = <<>>

\* the condition index is out of range: eval has aborted
OutOfRangeAborts ==
    /\ HasCond /\ pc = "done" /\ CondOutOfRange(hidden_state[who])
    /\ status[who] = "aborted" /\ execs = <<>>

\* ---- C21
\* the j-th body execution of the running eval is one on which the body
\* executor fails
FailingExec(j) == op.plan.body = "fail" /\ execs[j].i = op.plan.fail_at

\* eval has stopped at a body execution that failed
StoppedAtFailure ==
    /\ execs # <<>> /\ FailingExec(Len(execs))
    /\ pc = "done" /\ status[who] = "failed"
    /\ execs[Len(execs)].outs = <<>>
    /\ i = execs[Len(execs)].i
    /\ Len(hidden_state[who]) = 0
    /\ result[who] = <<>>

\* C21 as stated: if the body executor fails at executed iteration i, eval
\* stops immediately (no later body execution, no output distribution for
\* iteration i) and returns an error that carries the context "Evaluating
\* inner body" together with the failing iteration index i
C21_BodyFailureWithIndex ==
    \A j \in 1..Len(execs) :
        FailingExec(j) =>
            /\ j = Len(execs)
            /\ pc = "run" \/ StoppedAtFailure
            /\ pc = "done" =>
                  /\ error[1].msg = "Evaluating inner body"
                  /\ \E c \in 1..Len(error) : \E a \in 1..Len(error[c].args) :
                        error[c].args[a] = execs[j].i

\* C21 amended: eval stops immediately and returns an error whose context
\* is "Evaluating inner body"; nothing is formatted into that context, the
\* iteration index is not part of the error
C21_BodyFailureContext ==
    \A j \in 1..Len(execs) :
        FailingExec(j) =>
            /\ j = Len(execs)
            /\ pc = "run" \/ StoppedAtFailure
            /\ pc = "done" =>
                  /\ error[1] = Ctx("Evaluating inner body", <<>>)
                  /\ \A c \in 1..Len(error) : error[c].args = <<>>

\* the body has failed at its third execution, at iteration index 2
C21_Witness ==
    /\ StoppedAtFailure /\ Len(execs) = 3 /\ op.skip = 0 /\ i = 2
    /\ error[1] = Ctx("Evaluating inner body", <<>>)

\* ---- C22
\* the number of loop-carried state inputs of the parsed node
Carried == Len(TakeWhileSome(parsed[1].node.present, 3))

\* the node has a trip count input and a condition input
HasExit ==
    /\ Len(parsed[1].node.present) >= 2
    /\ parsed[1].node.present[1] /\ parsed[1].node.present[2]

\* C22: for a Loop node with n loop-carried state inputs and a body with
\* 1 + n + m outputs the parser emits the input mapping [IterIndex,
\* State(condition), n State(FromInput), Full...], as many State output
\* mappings as State input mappings, in the same order, outer output slots
\* exactly {0..n+m-1} with last_value_slot 0..n-1 for the states and
\* Scan(slot, axis 0, chunk 1) for slots n..n+m-1, as many mappings as the
\* body has inputs and outputs, and condition_from_state = Some(0); it
\* fails when the mapping counts differ from the body's counts
C22_ParserMapping ==
    parsed # <<>> =>
        LET node == parsed[1].node
            r == parsed[1].result
            n == Carried
            m == node.body_outputs - 1 - n
        IN  /\ r.ok =>
                  /\ Len(r.input_mapping) = node.body_inputs
                  /\ Len(r.output_mapping) = node.body_outputs
                  /\ m >= 0
                  /\ r.input_mapping[1] = MIterIndex
                  /\ \A j \in 2..(n + 2) :
                        /\ r.input_mapping[j].kind = "State"
                        /\ r.input_mapping[j].initializer.kind = "FromInput"
                  /\ \A j \in (n + 3)..Len(r.input_mapping) : r.input_mapping[j].kind = "Full"
                  /\ \A j \in 1..Len(r.output_mapping) : r.output_mapping[j].state <=> j <= n + 1
                  /\ Len(SelectSeq(r.output_mapping, IsStateOutput))
                        = Len(SelectSeq(r.input_mapping, IsState))
                  /\ r.output_mapping[1].last_value_slot = NONE
                  /\ r.output_mapping[1].scan = NoScan
                  /\ \A j \in 1..n :
                        /\ r.output_mapping[j + 1].last_value_slot = j - 1
                        /\ r.output_mapping[j + 1].scan = NoScan
                  /\ \A j \in 1..m :
                        /\ r.output_mapping[n + 1 + j].scan = ScanInfo(n + j - 1, 0, 1)
                        /\ r.output_mapping[n + 1 + j].last_value_slot = NONE
                  /\ r.exit_condition.condition_from_state = 0
            /\ (2 + n + node.unresolved # node.body_inputs \/ m < 0) => ~r.ok

\* a node with trip count, condition, two states and one captured value,
\* whose body has five inputs and four outputs, has been parsed
C22_Witness ==
    /\ parsed # <<>> /\ parsed[1].result.ok
    /\ Carried = 2 /\ parsed[1].node.unresolved = 1
    /\ parsed[1].node.body_inputs = 5 /\ parsed[1].node.body_outputs = 4
    /\ parsed[1].result.output_mapping[4].scan = ScanInfo(2, 0, 1)

\* the op instance OpLoop is what the parser emits for a node with one
\* state and one captured value
ParsedOpLoop ==
    (parsed # <<>> /\ parsed[1].node = Node(<<TRUE, TRUE, TRUE>>, 4, 2, 1)) =>
        /\ parsed[1].result.ok
        /\ parsed[1].result.input_mapping = op.input_mapping
        /\ parsed[1].result.output_mapping = op.output_mapping
        /\ parsed[1].result.exit_condition = op.exit_condition

\* ---- C23
\* infer_facts has returned Ok
SolverOk == solver # <<>> /\ solver[1].pc = "done"

\* infer_facts has returned Err
SolverErr == solver # <<>> /\ solver[1].pc = "err"

\* the values the items of a rule have in a context
ItemValues(rule, context) == {ExpGet(rule.items[j], context) : j \in 1..Len(rule.items)}

\* every equals rule of the list with a concrete item has all its items at that value
Propagated(rules, context) ==
    \A j \in 1..Len(rules) :
        rules[j].rule.kind = "equals"
        => LET V == ItemValues(rules[j].rule, context) IN
           (\E v \in V : is_concrete(v)) => Cardinality(V) = 1

\* the orders in which n rules can be added
Orders(n) == {q \in [1..n -> 1..n] : \A a, b \in 1..n : q[a] = q[b] => a = b}

BackwardCopy ==
    /\ SolverOk
    /\ solver[1].self_rules = <<EqualsRule(<<VarExp(2), VarExp(3)>>)>>
    /\ solver[1].facts[3] = 2
    => solver[1].context[2] = 2

\* ---- C24
\* infer_facts has returned, Ok or Err
SolverReturned == SolverOk \/ SolverErr

\* some equals rule relates two items whose concrete values differ
Conflict(rules, context) ==
    \E j \in 1..Len(rules) :
        /\ rules[j].kind = "equals"
        /\ \E v, w \in ItemValues(rules[j], context) :
               is_concrete(v) /\ is_concrete(w) /\ v # w

\* every rule is an equals rule whose items are all concrete and agree
Agree(rules, context) ==
    \A j \in 1..Len(rules) :
        /\ rules[j].kind = "equals"
        /\ \A v \in ItemValues(rules[j], context) : is_concrete(v)
        /\ Cardinality(ItemValues(rules[j], context)) = 1

\* no item of any rule is concrete
NoneConcrete(rules, context) ==
    \A j \in 1..Len(rules) : \A v \in ItemValues(rules[j], context) : ~is_concrete(v)

RightConstant ==
    /\ SolverReturned
    /\ solver[1].self_rules = <<EqualsRule(<<ConstExp(2), ConstExp(2)>>)>>
    => SolverOk

NothingConcreteReturned ==
    /\ SolverOk
    /\ Len(solver[1].self_rules) = 2
    /\ NoneConcrete(solver[1].self_rules, solver[1].facts)

\* ---- C25
\* an eval call has begun and its iteration count is known
ItersKnown == pc # "idle" /\ iters # NONE

\* C25: in an eval whose iteration count n is known, for every skip and every driver
\* state, the body is executed at most n times
C25_AtMostItersExecutions == ItersKnown => Len(execs) <= iters

\* the steps still to skip when the call began are at most n: the bound holds
AtMostItersWhenSkipFits ==
    ItersKnown /\ op.skip - entry.position <= iters => Len(execs) <= iters

\* more steps to skip than iterations: the exit test i == n is stepped over and the
\* loop is still running at the largest index explored
SkipBeyondItersRunsAway ==
    /\ ItersKnown
    /\ op.skip - entry.position > iters
    /\ pc = "loop"
    /\ i = MaxIndex
    /\ Len(execs) > iters

\* ---- C26
\* the op has a trip count input and a Scan input mapping, and eval has read a valid
\* trip count
TripAndScan ==
    /\ HasTrip
    /\ SelectSeq(op.input_mapping, IsScanInput) # <<>>
    /\ pc # "idle"
    /\ ~TripCount(op, inputs).err

\* C26: when trip_count_from_input is set and a Scan input mapping exists, the
\* iteration count of eval is the trip-count value: the scan accumulator is sized
\* body_dim * trip count, the loop returns at i = trip count after that many body
\* executions, and the last value is the body output of iteration trip count - 1
C26_TripCountOverridesScan ==
    TripAndScan =>
        /\ iters = TripValue
        /\ Allocated => outputs[2].shape = <<AccLen(op, 1, TripValue)>>
        /\ Returned /\ ~HasCond =>
              /\ i = TripValue
              /\ Len(execs) = TripValue
              /\ TripValue >= 1 =>
                    /\ execs[TripValue].i = TripValue - 1
                    /\ result[who][1] = execs[TripValue].outs[2]

\* three elements scanned one by one with trip count 2: two iterations, an
\* accumulator of two elements and the last value of the second iteration
C26_Witness ==
    /\ TripAndScan /\ Returned
    /\ FirstScan.chunk = 1 /\ FirstScanLen = 3 /\ TripValue = 2
    /\ Len(execs) = 2
    /\ IntoTensor(result[who][2]).data = <<11, 12>>
    /\ result[who][1] = execs[2].outs[2]

\* ---- C27
\* eval has returned by reaching the iteration count, and output mapping 1 is a scan
\* output in slot 1 without full_dim_hint: its accumulator has axis length n * w
FullAccumulator ==
    /\ Returned /\ iters # NONE /\ i = iters
    /\ op.output_mapping[1].scan.slot = 1
    /\ op.output_mapping[1].full_dim_hint = NONE
    /\ ScanA.shape = <<AccLen(op, 1, iters)>>

\* the Assign of the j-th executed iteration, in the accumulator's own direction
AssignOf(j) ==
    assign_range(ScanA.shape[1], IntoTensor(execs[j].outs[1]).shape[1], execs[j].i,
                 op.output_mapping[1].scan.chunk < 0)

\* index p (from 0) of the accumulator was written by some Assign of this eval
Written(p) ==
    \E j \in 1..Len(execs) : AssignOf(j).offset <= p /\ p < AssignOf(j).offset + AssignOf(j).count

\* C27: when eval returns by iteration count n with a scan accumulator of axis length
\* n * w, every index 0..n*w-1 has been written by some Assign, forward and backward,
\* and no returned element is uninitialized
C27_AssignCoversAccumulator ==
    FullAccumulator =>
        \A p \in 0..(ScanA.shape[1] - 1) : Written(p) /\ ScanA.data[p + 1] # UNINIT

\* no step was skipped in this eval
NoSkip == entry.position >= op.skip

\* forward, and backward by chunks of one element, every index is written when no
\* step was skipped
AssignCoversForward ==
    FullAccumulator /\ NoSkip /\ op.output_mapping[1].scan.chunk >= -1
    => \A p \in 0..(ScanA.shape[1] - 1) : Written(p)

\* two elements scanned backward in one chunk of two: index 0 is never written
BackwardGap ==
    /\ FullAccumulator /\ NoSkip
    /\ op.output_mapping[1].scan.chunk = -2 /\ ~HasTrip /\ ScanLen = 2
    /\ Len(execs) = 1
    /\ AssignOf(1) = [fault |-> FALSE, offset |-> 1, count |-> 1]
    /\ ~Written(0)
    /\ ScanA.data = <<UNINIT, 11>>

\* ---- C28
\* an eval has allocated its outputs, and output mapping 1 is a scan output in slot 1
ScanAccumulator ==
    /\ pc # "idle" /\ Len(outputs) >= 2
    /\ op.output_mapping[1].scan.slot = 1

\* the body calls of this eval that have produced their outputs
Produced == {j \in 1..Len(execs) : execs[j].outs # <<>>}

\* offset and count of the Assign that stores the scan output of the j-th body call
WriteOf(j) ==
    assign_range(outputs[2].shape[1], IntoTensor(execs[j].outs[1]).shape[1], execs[j].i,
                 op.output_mapping[1].scan.chunk < 0)

\* C28: within one eval the body calls have distinct iteration indices, and the index
\* ranges [offset, offset + count) their Assigns write into the accumulator are
\* pairwise disjoint, forward and backward
C28_AssignRangesDisjoint ==
    ScanAccumulator =>
        \A j, l \in Produced :
            j < l =>
                /\ execs[j].i # execs[l].i
                /\ \/ WriteOf(j).offset + WriteOf(j).count <= WriteOf(l).offset
                   \/ WriteOf(l).offset + WriteOf(l).count <= WriteOf(j).offset

\* three elements scanned backward by chunks of two: the two Assigns write [3, 4)
\* and [1, 3) of an accumulator of four elements
C28_Witness ==
    /\ ScanAccumulator /\ Returned
    /\ op.output_mapping[1].scan.chunk = -2 /\ outputs[2].shape = <<4>>
    /\ Produced = {1, 2}
    /\ WriteOf(1) = [fault |-> FALSE, offset |-> 3, count |-> 1]
    /\ WriteOf(2) = [fault |-> FALSE, offset |-> 1, count |-> 2]

\* forward by chunks of two: [0, 2) and [2, 4)
ForwardRanges ==
    /\ ScanAccumulator /\ Returned
    /\ op.output_mapping[1].scan.chunk = 2 /\ outputs[2].shape = <<4>>
    /\ Produced = {1, 2}
    /\ WriteOf(1) = [fault |-> FALSE, offset |-> 0, count |-> 2]
    /\ WriteOf(2) = [fault |-> FALSE, offset |-> 2, count |-> 2]

\* ---- C29
\* eval has returned a scan accumulator in slot 1 and the op has been typed for the
\* facts of the same inputs, with a concrete scan-axis dimension
TypedAndEvaluated ==
    /\ Returned /\ Typed
    /\ facts[1].inputs = FactsOf(inputs)
    /\ op.output_mapping[1].scan.slot = 1
    /\ facts[1].result.facts[2].shape[1] # SYMBOL

\* C29: the scan-axis length of the accumulator eval returns equals the scan-axis
\* dimension output_facts declares for the same slot, also when the op takes its
\* iteration count from a trip count input
C29_TypingMatchesAllocation ==
    TypedAndEvaluated => ScanA.shape[1] = facts[1].result.facts[2].shape[1]

\* without a trip count input the two agree
TypingMatchesWithoutTrip ==
    TypedAndEvaluated /\ ~HasTrip => ScanA.shape[1] = facts[1].result.facts[2].shape[1]

\* three elements scanned one by one with trip count 2: output_facts declares 3,
\* eval returns an accumulator of 2
TypingIgnoresTripCount ==
    /\ TypedAndEvaluated /\ HasTrip
    /\ FirstScan.chunk = 1 /\ FirstScanLen = 3 /\ TripValue = 2
    /\ facts[1].result.facts[2].shape = <<3>>
    /\ ScanA.shape = <<2>>

\* ---- C30
\* an eval of an op with a Scan input mapping has begun
Slicing == pc # "idle" /\ inputs # <<>> /\ SelectSeq(op.input_mapping, IsScanInput) # <<>>

\* slice_input on the first Scan input for chunk index c
SliceAt(c) ==
    slice_input(IntoTensor(inputs[FirstScan.slot + 1]), FirstScan.axis, c, FirstScan.chunk)

\* the chunk indices slice_input has been called with in this eval: those of the body
\* calls prepared, and the one whose slice ended the call
SliceCalls ==
    {execs[j].i : j \in 1..Len(execs)}
    \cup (IF pc = "done" /\ status[who] = "aborted" /\ SliceAt(i).fault THEN {i} ELSE {})

\* C30: slice_input is called only with chunk_ix * |chunk| < len of the scanned axis,
\* also when the trip count exceeds ceil(len / |chunk|) and when skip > 0
C30_SliceIndexInRange ==
    Slicing => \A c \in SliceCalls : c * Abs(FirstScan.chunk) < FirstScanLen

\* without a trip count input, and with no more steps to skip than iterations, every
\* slice starts inside the scanned axis
SliceInRangeScanCounted ==
    Slicing /\ ~HasTrip /\ op.skip - entry.position <= iters
    => \A c \in SliceCalls : c * Abs(FirstScan.chunk) < FirstScanLen

\* one element scanned one by one with trip count 3: the slice of chunk 1 copies
\* nothing and the slice of chunk 2 underflows the remainder
TripBeyondScan ==
    /\ Slicing /\ HasTrip
    /\ FirstScan.chunk = 1 /\ FirstScanLen = 1 /\ TripValue = 3
    /\ SliceCalls = {0, 1, 2}
    /\ IntoTensor(execs[2].ins[1]).data = <<UNINIT>>
    /\ SliceAt(2).fault
    /\ status[who] = "aborted"

\* one element, skip 2: the first slice is asked for chunk 2
SkipBeyondScan ==
    /\ Slicing /\ ~HasTrip /\ Fresh
    /\ op.skip = 2 /\ FirstScanLen = 1
    /\ 2 \in SliceCalls

\* ---- C31
\* output_facts has been called on the op
FactsAsked == facts # <<>>

\* C31: output_facts returns a result for every valid op, also for an op without a
\* Scan input mapping; it never aborts for lack of a Scan input
C31_OutputFactsReturns == FactsAsked => ~facts[1].result.panic

\* an op with a Scan input mapping is typed without aborting
OutputFactsReturnsWithScan ==
    FactsAsked /\ SelectSeq(op.input_mapping, IsScanInput) # <<>> => ~facts[1].result.panic

\* the op the Loop parser emits has been evaluated successfully, and its typing aborts
LoopTypingAborts ==
    /\ FactsAsked /\ Returned
    /\ op = OpLoop(0)
    /\ facts[1].result.panic

\* ---- C32
\* the node given to the parser has a trip count input / a condition input
NodeHasTrip == OptionalInput(parsed[1].node.present, 1) # NONE
NodeHasCond == OptionalInput(parsed[1].node.present, 2) # NONE

NoExitCondition == parsed[1].result.err = "Loop has no exit condition"

\* C32: the parser fails with "Loop has no exit condition" exactly when the node has
\* neither a trip count input nor a condition input; a node with only one of the two
\* is not rejected for its exit condition
C32_NoExitConditionIffNeither ==
    parsed # <<>> => (NoExitCondition <=> ~NodeHasTrip /\ ~NodeHasCond)

\* what the parser does: the error is returned unless both inputs are present
NoExitConditionUnlessBoth ==
    parsed # <<>> => (NoExitCondition <=> ~(NodeHasTrip /\ NodeHasCond))

\* a Loop with a trip count, no condition, one carried state and a body
\* (iter, cond, s) -> (cond, s) is rejected
TripOnlyRejected ==
    /\ parsed # <<>>
    /\ parsed[1].node = Node(<<TRUE, FALSE, TRUE>>, 3, 2, 0)
    /\ NoExitCondition

\* ---- C33
\* the closure calls made so far by the given rules of this run
ClosureCalls == solver[1].calls

\* every closure call was made with a concrete value, the one its rule's expression
\* has, and no given rule has called its closure twice
ClosureCalledOnceWhenConcrete ==
    /\ \A c \in 1..Len(ClosureCalls) :
          /\ solver[1].rules[ClosureCalls[c].rule].rule.kind = "given"
          /\ is_concrete(ClosureCalls[c].value)
          /\ ClosureCalls[c].value
                = ExpGet(solver[1].rules[ClosureCalls[c].rule].rule.items[1], solver[1].context)
    /\ \A c, d \in 1..Len(ClosureCalls) :
          ClosureCalls[c].rule = ClosureCalls[d].rule => c = d

\* every rule added by a closure has joined the rule list and has been applied
AddedRulesApplied ==
    /\ solver[1].added_rules = <<>>
    /\ Len(solver[1].rules) = Len(solver[1].self_rules) + Len(ClosureCalls)
    /\ \A j \in (Len(solver[1].self_rules) + 1)..Len(solver[1].rules) :
          solver[1].applied[j] >= 1

\* C33 as stated: a given rule's closure is never called while its expression is not
\* concrete and is called at most once, and every rule a closure adds has been applied
\* at least once when infer_facts returns, Ok or Err
C33_GivenClosure ==
    solver # <<>> =>
        /\ ClosureCalledOnceWhenConcrete
        /\ SolverReturned => AddedRulesApplied

\* C33 amended: the same, the added rules having been applied when infer_facts
\* returns Ok; an Err of another rule ends the run before they are
C33_GivenClosureOk ==
    solver # <<>> =>
        /\ ClosureCalledOnceWhenConcrete
        /\ SolverOk => AddedRulesApplied

\* shape[1] of the input is equated with the known output dimension, the given rule
\* on it then calls its closure with 2, and the rule the closure adds is applied in
\* the next pass: infer_facts returns Ok with shape[0] = 2
C33_Witness ==
    /\ SolverOk
    /\ solver[1].self_rules = <<GivenRule(VarExp(2), "then_in"),
                                EqualsRule(<<VarExp(2), VarExp(3)>>)>>
    /\ ClosureCalls = <<[rule |-> 1, value |-> 2]>>
    /\ solver[1].rules[3] = [used |-> TRUE,
                             rule |-> EqualsRule(<<VarExp(1), ConstExp(2)>>)]
    /\ solver[1].applied[3] >= 1
    /\ solver[1].context[1] = 2

\* a given rule whose expression never becomes concrete never calls its closure
ClosureNotCalled ==
    /\ SolverOk
    /\ solver[1].self_rules = <<GivenRule(VarExp(2), "then_in")>>
    /\ ClosureCalls = <<>>
    /\ solver[1].applied[1] >= 1

\* the closure has added a rule and a later rule of the same pass fails: infer_facts
\* returns Err and the added rule was never applied
AddedRuleLostOnErr ==
    /\ SolverErr
    /\ Len(ClosureCalls) = 1
    /\ solver[1].added_rules = <<EqualsRule(<<VarExp(1), ConstExp(2)>>)>>
    /\ Len(solver[1].rules) = Len(solver[1].self_rules)

\* ---- C34
\* a pass of the rules is over and `while changed` is about to be tested
PassOver == solver # <<>> /\ solver[1].pc = "while" /\ solver[1].passes >= 1

\* the pass that is over has marked no rule as used and has added none
IdlePass ==
    /\ NbUsed(solver[1].rules) = solver[1].before.used
    /\ Len(solver[1].rules) = solver[1].before.rules

\* every pass that goes on marks one more rule as used, the loop ends after the first
\* pass that uses no rule and adds none, and so the passes begun are at most the number
\* of rules plus one
PassesBounded ==
    /\ PassOver /\ solver[1].changed => NbUsed(solver[1].rules) > solver[1].before.used
    /\ PassOver => (IdlePass <=> ~solver[1].changed)
    /\ SolverOk => IdlePass
    /\ solver # <<>> =>
          /\ solver[1].passes <= solver[1].before.used + 1
          /\ solver[1].passes <= Len(solver[1].rules) + 1

\* a step of infer_facts applies the rule at j
Applies(j) ==
    /\ solver # <<>> /\ solver' # <<>>
    /\ j <= Len(solver[1].applied)
    /\ solver'[1].applied[j] > solver[1].applied[j]

\* C34: infer_facts terminates: a rule that has been used is never applied again, every
\* pass that does not end the loop marks at least one more rule as used, and the loop
\* ends after the first pass in which no rule is used and none is added, so that the
\* number of passes is at most the number of rules (given and added) plus one
C34_SolverTerminates ==
    [][/\ PassesBounded'
       /\ \A j \in 1..(MaxRules + MaxRules) : Applies(j) => ~solver[1].rules[j].used]_vars

\* shape[0] == shape[1], shape[1] == shape[2], shape[1] == 3: the first pass applies
\* the three rules and uses the last, the second applies and uses the other two, the
\* third skips them all, and infer_facts returns after three passes
C34_Witness ==
    /\ SolverOk
    /\ solver[1].self_rules = <<EqualsRule(<<VarExp(1), VarExp(2)>>),
                                EqualsRule(<<VarExp(2), VarExp(3)>>),
                                EqualsRule(<<VarExp(2), ConstExp(3)>>)>>
    /\ solver[1].facts = [p \in Paths |-> AnyFact]
    /\ solver[1].passes = 3
    /\ solver[1].applied = <<2, 2, 1>>
    /\ NbUsed(solver[1].rules) = 3

\* the solver, its steps taken as long as one is possible
SpecSolverLive == SpecSolver /\ WF_vars(NextSolver)

\* every run of infer_facts returns
SolverEventuallyReturns == <>SolverReturned

====
